---- MODULE Spec2Model ----
(***************************************************************************)
(* Natural-language-to-SQL pipeline of app/services/advanced_sql_service.py *)
(* (NaturalLanguageProcessor, QueryOptimizer, AdvancedSQLService).          *)
(*                                                                          *)
(* Text representation.                                                     *)
(*  - A question is a sequence of characters.  A character is a string:     *)
(*    an ASCII character stands for itself (" ", "7", "t", "T"); a Hangul   *)
(*    syllable is written by its romanization, which always has two or      *)
(*    more letters (the vowel syllables 이 and 아 are written "yi" and      *)
(*    "ah"), so that no syllable is mistaken for an ASCII letter.           *)
(*  - An SQL text (and the explanation text) is a sequence of chunks whose  *)
(*    concatenation is the byte string.  Every word the optimizer's regular *)
(*    expressions look for (JOIN, SELECT, FROM, WHERE, SUM, ..., LIMIT,     *)
(*    customers.city, "(") is a chunk of its own, delimited by non-word     *)
(*    characters; the line separator is the chunk "\n".                     *)
(***************************************************************************)
EXTENDS Integers, Sequences, FiniteSets, TLC

(***************************************************************************)
(* Bounds of the model.                                                     *)
(***************************************************************************)
MaxPhrases == 2      \* phrases per question
MaxTick == 1         \* clock instants 0..MaxTick
MaxSeed == 2         \* hash seeds 0..MaxSeed of the interpreter process

(***************************************************************************)
(* Character classes and the regular-expression subset used by the rule     *)
(* tables: literals, \s* and (\d+), alternation at top level.               *)
(***************************************************************************)
\* Optional values: None is the empty sequence, a present value v is <<v>>
None == <<>>
Some(v) == <<v>>

Space == {" "}
Digit == {"0", "1", "2", "3", "4", "5", "6", "7", "8", "9"}
WS == "\\s*"
NUM == "(\\d+)"
NoMatch == [end |-> 0, cap |-> <<>>, alt |-> 0]

\* str.lower() on one character
LowerChar(c) ==
    CASE c = "T" -> "t" [] c = "O" -> "o" [] c = "P" -> "p"
      [] c = "M" -> "m" [] c = "A" -> "a" [] c = "X" -> "x"
      [] OTHER -> c

\* question.lower()
lower(text) == [i \in 1..Len(text) |-> LowerChar(text[i])]

RECURSIVE SkipWhile(_, _, _)
\* first position >= i whose character is not in class (greedy repetition)
SkipWhile(text, i, class) ==
    IF i <= Len(text) /\ text[i] \in class
    THEN SkipWhile(text, i + 1, class)
    ELSE i

RECURSIVE MatchFrom(_, _, _, _, _)
\* match elements k.. of one alternative at position i; end = 0: no match
MatchFrom(alt, k, text, i, cap) ==
    IF k > Len(alt) THEN [end |-> i, cap |-> cap, alt |-> 0]
    ELSE IF alt[k] = WS
         THEN MatchFrom(alt, k + 1, text, SkipWhile(text, i, Space), cap)
    ELSE IF alt[k] = NUM
         THEN LET j == SkipWhile(text, i, Digit)
              IN  IF j = i THEN NoMatch
                  ELSE MatchFrom(alt, k + 1, text, j, SubSeq(text, i, j - 1))
    ELSE IF i <= Len(text) /\ text[i] = alt[k]
         THEN MatchFrom(alt, k + 1, text, i + 1, cap)
    ELSE NoMatch

RECURSIVE MatchAlts(_, _, _, _)
\* the first alternative, in order, that matches at position i
MatchAlts(regex, a, text, i) ==
    IF a > Len(regex) THEN NoMatch
    ELSE LET m == MatchFrom(regex[a], 1, text, i, <<>>)
         IN  IF m.end # 0 THEN [m EXCEPT !.alt = a]
             ELSE MatchAlts(regex, a + 1, text, i)

MatchAt(regex, text, i) == MatchAlts(regex, 1, text, i)

\* re.search(pattern, text) is not None
re_search(regex, text) ==
    \E i \in 1..Len(text) : MatchAt(regex, text, i).end # 0

\* m.group(1) of a match.  Groups are numbered through the whole pattern and
\* every alternative of the rule tables holds at most one group, so group 1 is
\* the group of the first alternative: it is None when another alternative
\* matched.
group1(m) == IF m.alt = 1 /\ m.cap # <<>> THEN Some(m.cap) ELSE None

RECURSIVE FindFrom(_, _, _)
FindFrom(regex, text, i) ==
    IF i > Len(text) THEN <<>>
    ELSE LET m == MatchAt(regex, text, i)
         IN  IF m.end # 0
             THEN <<group1(m)>> \o FindFrom(regex, text, m.end)
             ELSE FindFrom(regex, text, i + 1)

\* re_finditer giving the first match only, as re.search does
re_finditer_First(regex, text) ==
    SubSeq(FindFrom(regex, text, 1), 1,
           IF Len(FindFrom(regex, text, 1)) > 0 THEN 1 ELSE 0)

\* re.finditer(pattern, text): m.group(1) of each match, leftmost first,
\* non-overlapping
re_finditer(regex, text) == FindFrom(regex, text, 1)

\* `needle in text` for strings
Contains(needle, text) == re_search(<<needle>>, text)

(***************************************************************************)
(* Numbers and their text.                                                  *)
(***************************************************************************)
DigitValue(c) ==
    CASE c = "0" -> 0 [] c = "1" -> 1 [] c = "2" -> 2 [] c = "3" -> 3
      [] c = "4" -> 4 [] c = "5" -> 5 [] c = "6" -> 6 [] c = "7" -> 7
      [] c = "8" -> 8 [] c = "9" -> 9

DigitChar(d) == <<"0", "1", "2", "3", "4", "5", "6", "7", "8", "9">>[d + 1]

RECURSIVE int(_)
\* int(digits)
int(digits) ==
    IF Len(digits) = 0 THEN 0
    ELSE 10 * int(SubSeq(digits, 1, Len(digits) - 1))
         + DigitValue(digits[Len(digits)])

RECURSIVE str(_)
\* str(n) for n >= 0
str(n) == IF n < 10 THEN <<DigitChar(n)>>
          ELSE str(n \div 10) \o <<DigitChar(n % 10)>>

RECURSIVE Pad(_, _)
\* zero padding of the %04d / %02d fields of a formatted datetime
Pad(digits, width) ==
    IF Len(digits) >= width THEN digits ELSE Pad(<<"0">> \o digits, width)

RECURSIVE Join(_, _)
\* sep.join(parts) for a list of texts
Join(parts, sep) ==
    IF Len(parts) = 0 THEN <<>>
    ELSE IF Len(parts) = 1 THEN parts[1]
    ELSE parts[1] \o sep \o Join(Tail(parts), sep)

RECURSIVE Flatten(_)
\* concatenation of a list of lists
Flatten(lists) ==
    IF Len(lists) = 0 THEN <<>> ELSE Head(lists) \o Flatten(Tail(lists))

(***************************************************************************)
(* The clock.  An instant is a datetime: the proleptic Gregorian ordinal of *)
(* its date and the text of its time of day (timedelta(days=..) and         *)
(* timedelta(weeks=..) never change the time of day).                       *)
(***************************************************************************)
BaseOrdinal == 739970            \* tick 0 is 2026-12-20
TickDays == 16                   \* tick 1 is 2027-01-05
MaxTimedeltaDays == 999999999

TimeOfDay(tick) == IF tick % 2 = 0 THEN "09:15:02.123456" ELSE "09:15:02.987654"

\* datetime.now() at clock tick `tick`
Instant(tick) ==
    [ordinal |-> BaseOrdinal + TickDays * tick, tod |-> TimeOfDay(tick)]

DaysBeforeMonth == <<0, 31, 59, 90, 120, 151, 181, 212, 243, 273, 304, 334>>
DaysInMonth == <<31, 28, 31, 30, 31, 30, 31, 31, 30, 31, 30, 31>>

\* datetime._ord2ymd: ordinal -> (year, month, day)
ord2ymd(ordinal) ==
    LET n0 == ordinal - 1
        n400 == n0 \div 146097
        r400 == n0 % 146097
        n100 == r400 \div 36524
        r100 == r400 % 36524
        n4 == r100 \div 1461
        r4 == r100 % 1461
        n1 == r4 \div 365
        n == r4 % 365
        year == n400 * 400 + 1 + n100 * 100 + n4 * 4 + n1
        leap == n1 = 3 /\ (n4 # 24 \/ n100 = 3)
        m0 == (n + 50) \div 32
        p0 == DaysBeforeMonth[m0] + (IF m0 > 2 /\ leap THEN 1 ELSE 0)
        month == IF p0 > n THEN m0 - 1 ELSE m0
        preceding == IF p0 > n
                     THEN p0 - (DaysInMonth[m0 - 1]
                                + (IF m0 - 1 = 2 /\ leap THEN 1 ELSE 0))
                     ELSE p0
    IN  IF n1 = 4 \/ n100 = 4
        THEN [year |-> year - 1, month |-> 12, day |-> 31]
        ELSE [year |-> year, month |-> month, day |-> n - preceding + 1]

\* str(datetime): 'YYYY-MM-DD HH:MM:SS.ffffff'
FormatDatetime(dt) ==
    LET ymd == ord2ymd(dt.ordinal)
    IN  Pad(str(ymd.year), 4) \o <<"-">> \o Pad(str(ymd.month), 2) \o <<"-">>
        \o Pad(str(ymd.day), 2) \o <<" ", dt.tod>>

\* datetime.now() - timedelta(days=days): OverflowError when the timedelta
\* or the resulting date is out of range
Raised(e) == [raised |-> TRUE, error |-> e]
Returned(v) == [raised |-> FALSE, value |-> v]

SubtractDays(dt, days) ==
    IF days > MaxTimedeltaDays
    THEN Raised("OverflowError: Python int too large to convert to C int")
    ELSE IF dt.ordinal - days < 1
    THEN Raised("OverflowError: date value out of range")
    ELSE Returned([ordinal |-> dt.ordinal - days, tod |-> dt.tod])

(***************************************************************************)
(* NaturalLanguageProcessor: the rule tables.                               *)
(***************************************************************************)
Static(text) == [tag |-> "Static", text |-> text]
Computed(unit, daysPerUnit) ==
    [tag |-> "Computed", unit |-> unit, daysPerUnit |-> daysPerUnit]

\* the lambda of a relative-time rule, applied to the captured digits:
\* f"sale_date >= DATE('{datetime.now() - timedelta(<unit>=int(..))}')"
ComputedCondition(rule, cap, nowDt) ==
    IF cap = None
    THEN Raised("TypeError: int() argument must be a string, a bytes-like object or a real number, not 'NoneType'")
    ELSE LET d == SubtractDays(nowDt, int(cap[1]) * rule.daysPerUnit)
         IN  IF d.raised THEN d
             ELSE Returned(<<"sale_date >= DATE", "(", "'">>
                           \o FormatDatetime(d.value) \o <<"')">>)

ExtractYear(year) ==
    <<"EXTRACT", "(", "YEAR ", "FROM", " sale_date) = ">> \o str(year)
ExtractMonth(month) ==
    <<"EXTRACT", "(", "MONTH ", "FROM", " sale_date) = ">> \o str(month)
MonthIn(list) == <<"EXTRACT", "(", "MONTH ", "FROM", " sale_date) IN ", "(", list>>

\* _initialize_time_patterns, evaluated when the processor is constructed at
\* instant dt: the f-strings of the absolute rules are formatted here, once
_initialize_time_patterns(dt) ==
    LET today == ord2ymd(dt.ordinal) IN
    << \* 지난 N 년
       [pattern |-> << <<"ji", "nan", WS, NUM, WS, "nyeon">> >>,
        condition |-> Computed("days", 365)],
       \* 지난 N 달 | 지난 N 개월
       [pattern |-> << <<"ji", "nan", WS, NUM, WS, "dal">>,
                       <<"ji", "nan", WS, NUM, WS, "gae", "wol">> >>,
        condition |-> Computed("days", 30)],
       \* 지난 N 주
       [pattern |-> << <<"ji", "nan", WS, NUM, WS, "ju">> >>,
        condition |-> Computed("weeks", 7)],
       \* 지난 N 일
       [pattern |-> << <<"ji", "nan", WS, NUM, WS, "il">> >>,
        condition |-> Computed("days", 1)],
       \* 올해 | 금년
       [pattern |-> << <<"ol", "hae">>, <<"geum", "nyeon">> >>,
        condition |-> Static(ExtractYear(today.year))],
       \* 작년 | 지난해
       [pattern |-> << <<"jak", "nyeon">>, <<"ji", "nan", "hae">> >>,
        condition |-> Static(ExtractYear(today.year - 1))],
       \* 이번 달 | 이번 월
       [pattern |-> << <<"yi", "beon", WS, "dal">>, <<"yi", "beon", WS, "wol">> >>,
        condition |-> Static(ExtractYear(today.year) \o <<" AND ">>
                             \o ExtractMonth(today.month))],
       \* 지난 달 | 저번 달
       [pattern |-> << <<"ji", "nan", WS, "dal">>, <<"jeo", "beon", WS, "dal">> >>,
        condition |-> Static(ExtractYear(today.year) \o <<" AND ">>
                             \o ExtractMonth(IF today.month > 1
                                             THEN today.month - 1 ELSE 12))],
       \* 봄, 여름, 가을, 겨울
       [pattern |-> << <<"bom">> >>, condition |-> Static(MonthIn("3, 4, 5)"))],
       [pattern |-> << <<"yeo", "reum">> >>, condition |-> Static(MonthIn("6, 7, 8)"))],
       [pattern |-> << <<"ga", "eul">> >>, condition |-> Static(MonthIn("9, 10, 11)"))],
       [pattern |-> << <<"gyeo", "ul">> >>, condition |-> Static(MonthIn("12, 1, 2)"))],
       \* 평일, 주말
       [pattern |-> << <<"pyeong", "il">> >>,
        condition |-> Static(<<"EXTRACT", "(", "DOW ", "FROM",
                               " sale_date) BETWEEN 1 AND 5">>)],
       [pattern |-> << <<"ju", "mal">> >>,
        condition |-> Static(<<"EXTRACT", "(", "DOW ", "FROM",
                               " sale_date) IN ", "(", "0, 6)">>)] >>

\* _initialize_business_terms (a dict: iteration is in insertion order)
business_terms ==
    << [term |-> "revenue",
        \* 매출, 수익, 매출액, 수입, 판매액
        patterns |-> << << <<"mae", "chul">> >>, << <<"su", "ik">> >>,
                        << <<"mae", "chul", "aek">> >>, << <<"su", "ip">> >>,
                        << <<"pan", "mae", "aek">> >> >>,
        column |-> <<"sales.amount">>, table |-> "sales",
        aggregation |-> <<"SUM">>],
       [term |-> "profit",
        \* 수익, 이익, 순이익
        patterns |-> << << <<"su", "ik">> >>, << <<"yi", "ik">> >>,
                        << <<"sun", "yi", "ik">> >> >>,
        column |-> <<"sales.amount - ", "(",
                     "order_items.quantity * products.price * 0.7)">>,
        table |-> "sales", aggregation |-> <<"SUM">>],
       [term |-> "customer_count",
        \* 고객\s*수, 고객\s*숫자, 회원\s*수
        patterns |-> << << <<"go", "gaek", WS, "su">> >>,
                        << <<"go", "gaek", WS, "sut", "ja">> >>,
                        << <<"hoe", "won", WS, "su">> >> >>,
        column |-> <<"customers.id">>, table |-> "customers",
        aggregation |-> <<"COUNT", "(", "DISTINCT">>],
       [term |-> "customer_age",
        \* 고객\s*나이, 연령, 나이
        patterns |-> << << <<"go", "gaek", WS, "na", "yi">> >>,
                        << <<"yeon", "ryeong">> >>, << <<"na", "yi">> >> >>,
        column |-> <<"customers.age">>, table |-> "customers",
        aggregation |-> <<"AVG">>],
       [term |-> "product_count",
        \* 제품\s*수, 상품\s*수, 아이템\s*수
        patterns |-> << << <<"je", "pum", WS, "su">> >>,
                        << <<"sang", "pum", WS, "su">> >>,
                        << <<"ah", "yi", "tem", WS, "su">> >> >>,
        column |-> <<"products.id">>, table |-> "products",
        aggregation |-> <<"COUNT">>],
       [term |-> "inventory",
        \* 재고, 재고량, 보유량
        patterns |-> << << <<"jae", "go">> >>, << <<"jae", "go", "ryang">> >>,
                        << <<"bo", "yu", "ryang">> >> >>,
        column |-> <<"products.stock_quantity">>, table |-> "products",
        aggregation |-> <<"SUM">>],
       [term |-> "order_count",
        \* 주문\s*수, 주문\s*건수, 거래\s*건수
        patterns |-> << << <<"ju", "mun", WS, "su">> >>,
                        << <<"ju", "mun", WS, "geon", "su">> >>,
                        << <<"geo", "rae", WS, "geon", "su">> >> >>,
        column |-> <<"orders.id">>, table |-> "orders",
        aggregation |-> <<"COUNT">>],
       [term |-> "order_amount",
        \* 주문\s*금액, 거래\s*금액, 주문액
        patterns |-> << << <<"ju", "mun", WS, "geum", "aek">> >>,
                        << <<"geo", "rae", WS, "geum", "aek">> >>,
                        << <<"ju", "mun", "aek">> >> >>,
        column |-> <<"orders.total_amount">>, table |-> "orders",
        aggregation |-> <<"AVG">>] >>

\* _initialize_aggregation_terms
aggregation_terms ==
    << \* 총|전체|합계
       [pattern |-> << <<"chong">>, <<"jeon", "che">>, <<"hap", "gye">> >>,
        function |-> <<"SUM">>],
       \* 평균|avg
       [pattern |-> << <<"pyeong", "gyun">>, <<"a", "v", "g">> >>,
        function |-> <<"AVG">>],
       \* 최대|최고|max
       [pattern |-> << <<"choe", "dae">>, <<"choe", "go">>, <<"m", "a", "x">> >>,
        function |-> <<"MAX">>],
       \* 최소|최저|min
       [pattern |-> << <<"choe", "so">>, <<"choe", "jeo">>, <<"m", "i", "n">> >>,
        function |-> <<"MIN">>],
       \* 개수|수량|건수|count
       [pattern |-> << <<"gae", "su">>, <<"su", "ryang">>, <<"geon", "su">>,
                       <<"c", "o", "u", "n", "t">> >>,
        function |-> <<"COUNT">>],
       \* 상위|top
       [pattern |-> << <<"sang", "wi">>, <<"t", "o", "p">> >>,
        function |-> <<"ORDER BY", " {column} DESC ", "LIMIT">>],
       \* 하위|bottom
       [pattern |-> << <<"ha", "wi">>, <<"b", "o", "t", "t", "o", "m">> >>,
        function |-> <<"ORDER BY", " {column} ASC ", "LIMIT">>] >>

\* the keyword buckets of _detect_intent, in the order of the if/elif chain
intent_keywords ==
    << \* 비교, 차이, 대비
       [intent |-> "comparison",
        keywords |-> << <<"bi", "gyo">>, <<"cha", "yi">>, <<"dae", "bi">> >>],
       \* 추세, 트렌드, 변화, 증가, 감소
       [intent |-> "trend",
        keywords |-> << <<"chu", "se">>, <<"teu", "ren", "deu">>,
                        <<"byeon", "hwa">>, <<"jeung", "ga">>, <<"gam", "so">> >>],
       \* 상위, top, 최고, 가장 많이
       [intent |-> "ranking",
        keywords |-> << <<"sang", "wi">>, <<"t", "o", "p">>, <<"choe", "go">>,
                        <<"ga", "jang", " ", "manh", "yi">> >>],
       \* 분포, 분석, 통계
       [intent |-> "distribution",
        keywords |-> << <<"bun", "po">>, <<"bun", "seok">>, <<"tong", "gye">> >>],
       \* 총, 합계, 전체
       [intent |-> "aggregation",
        keywords |-> << <<"chong">>, <<"hap", "gye">>, <<"jeon", "che">> >>] >>

\* 서울, 부산, 대구, 인천, 광주, 대전, 울산, 수원, 창원, 성남
regions ==
    << <<"seo", "ul">>, <<"bu", "san">>, <<"dae", "gu">>, <<"in", "cheon">>,
       <<"gwang", "ju">>, <<"dae", "jeon">>, <<"ul", "san">>, <<"su", "won">>,
       <<"chang", "won">>, <<"seong", "nam">> >>

\* 전자제품, 의류, 식품, 생활용품, 화장품
categories ==
    << <<"jeon", "ja", "je", "pum">>, <<"ui", "ryu">>, <<"sik", "pum">>,
       <<"saeng", "hwal", "yong", "pum">>, <<"hwa", "jang", "pum">> >>

\* amount_patterns of _extract_filters
amount_patterns ==
    << \* (\d+)만원\s*이상
       [pattern |-> << <<NUM, "man", "won", WS, "yi", "sang">> >>,
        column |-> <<"total_amount >= ">>, scaled |-> TRUE],
       \* (\d+)만원\s*이하
       [pattern |-> << <<NUM, "man", "won", WS, "yi", "ha">> >>,
        column |-> <<"total_amount <= ">>, scaled |-> TRUE],
       \* (\d+)\s*세\s*이상
       [pattern |-> << <<NUM, WS, "se", WS, "yi", "sang">> >>,
        column |-> <<"customers.age", " >= ">>, scaled |-> FALSE],
       \* (\d+)\s*세\s*이하
       [pattern |-> << <<NUM, WS, "se", WS, "yi", "ha">> >>,
        column |-> <<"customers.age", " <= ">>, scaled |-> FALSE] >>

\* 높은\s*순|많은\s*순|큰\s*순
sort_desc_pattern ==
    << <<"nop", "eun", WS, "sun">>, <<"manh", "eun", WS, "sun">>,
       <<"keun", WS, "sun">> >>
\* 낮은\s*순|적은\s*순|작은\s*순
sort_asc_pattern ==
    << <<"naj", "eun", WS, "sun">>, <<"jeok", "eun", WS, "sun">>,
       <<"jak", "eun", WS, "sun">> >>

\* group_patterns of _extract_grouping
group_patterns ==
    << \* 지역별|도시별
       [pattern |-> << <<"ji", "yeok", "byeol">>, <<"do", "si", "byeol">> >>,
        column |-> <<"customers.city">>],
       \* 카테고리별|분류별
       [pattern |-> << <<"ka", "te", "go", "ri", "byeol">>,
                       <<"bun", "ryu", "byeol">> >>,
        column |-> <<"products.category">>],
       \* 월별|달별
       [pattern |-> << <<"wol", "byeol">>, <<"dal", "byeol">> >>,
        column |-> <<"EXTRACT", "(", "MONTH ", "FROM", " sale_date)">>],
       \* 년도별|연도별
       [pattern |-> << <<"nyeon", "do", "byeol">>, <<"yeon", "do", "byeol">> >>,
        column |-> <<"EXTRACT", "(", "YEAR ", "FROM", " sale_date)">>],
       \* 요일별
       [pattern |-> << <<"yo", "il", "byeol">> >>,
        column |-> <<"EXTRACT", "(", "DOW ", "FROM", " sale_date)">>],
       \* 고객별
       [pattern |-> << <<"go", "gaek", "byeol">> >>, column |-> <<"customers.id">>],
       \* 제품별|상품별
       [pattern |-> << <<"je", "pum", "byeol">>, <<"sang", "pum", "byeol">> >>,
        column |-> <<"products.id">>],
       \* 회사별|업체별
       [pattern |-> << <<"hoe", "sa", "byeol">>, <<"eop", "che", "byeol">> >>,
        column |-> <<"companies.name">>] >>

(***************************************************************************)
(* NaturalLanguageProcessor: extraction.                                    *)
(***************************************************************************)
RECURSIVE FirstBucket(_, _)
FirstBucket(question_lower, k) ==
    IF k > Len(intent_keywords) THEN "general"
    ELSE IF \E j \in 1..Len(intent_keywords[k].keywords) :
                Contains(intent_keywords[k].keywords[j], question_lower)
         THEN intent_keywords[k].intent
         ELSE FirstBucket(question_lower, k + 1)

\* _detect_intent testing the question as typed, not lower-cased
_detect_intent_AsTyped(question) == FirstBucket(question, 1)

_detect_intent(question) == FirstBucket(lower(question), 1)

BusinessEntity(info) ==
    [type |-> "business_term", value |-> info.term, column |-> info.column,
     table |-> info.table, aggregation |-> info.aggregation]

\* TermEntities with the re.search test hoisted out of the pattern loop: a
\* term that matches contributes an entity for each of its patterns
TermEntities_PerTerm(info, question) ==
    IF \E k \in 1..Len(info.patterns) : re_search(info.patterns[k], question)
    THEN [i \in 1..Len(info.patterns) |-> BusinessEntity(info)]
    ELSE <<>>

\* one entity per pattern of the term that re.search finds
TermEntities(info, question) ==
    LET hit == SelectSeq(info.patterns, LAMBDA p : re_search(p, question))
    IN  [i \in 1..Len(hit) |-> BusinessEntity(info)]

LocationEntity(region) ==
    [type |-> "location", value |-> region, column |-> <<"customers.city">>,
     condition |-> <<"customers.city", " = '">> \o region \o <<"'">>]

CategoryEntity(category) ==
    [type |-> "category", value |-> category, column |-> <<"products.category">>,
     condition |-> <<"products.category = '">> \o category \o <<"'">>]

_extract_entities(question) ==
    LET hitRegions == SelectSeq(regions, LAMBDA r : Contains(r, question))
        hitCategories == SelectSeq(categories, LAMBDA c : Contains(c, question))
    IN  Flatten([t \in 1..Len(business_terms) |->
                    TermEntities(business_terms[t], question)])
        \o [i \in 1..Len(hitRegions) |-> LocationEntity(hitRegions[i])]
        \o [i \in 1..Len(hitCategories) |-> CategoryEntity(hitCategories[i])]

\* the condition one rule yields for one match
RuleCondition(rule, cap, nowDt) ==
    IF rule.condition.tag = "Computed"
    THEN ComputedCondition(rule.condition, cap, nowDt)
    ELSE Returned(rule.condition.text)

RECURSIVE CollectConditions(_, _, _, _, _)
\* the loops of _extract_time_conditions over rule r.. and match m.. of it;
\* the first rule evaluation that raises ends the loops
CollectConditions(patterns, question, nowDt, r, acc) ==
    IF r > Len(patterns) THEN Returned(acc)
    ELSE LET caps == re_finditer(patterns[r].pattern, question)
             conds == [m \in 1..Len(caps) |->
                          RuleCondition(patterns[r], caps[m], nowDt)]
         IN  IF \E m \in 1..Len(conds) : conds[m].raised
             THEN conds[CHOOSE m \in 1..Len(conds) :
                            /\ conds[m].raised
                            /\ \A l \in 1..(m - 1) : ~conds[l].raised]
             ELSE CollectConditions(patterns, question, nowDt, r + 1,
                                    acc \o [m \in 1..Len(conds) |-> conds[m].value])

_extract_time_conditions(patterns, question, nowDt) ==
    CollectConditions(patterns, question, nowDt, 1, <<>>)

_extract_aggregations(question) ==
    LET hit == SelectSeq(aggregation_terms,
                         LAMBDA a : re_search(a.pattern, question))
    IN  [i \in 1..Len(hit) |->
            [function |-> hit[i].function, pattern |-> hit[i].pattern]]

\* the converter lambda of one amount pattern
FilterCondition(rule, cap) ==
    rule.column \o (IF rule.scaled THEN str(int(cap[1]) * 10000) ELSE cap[1])

\* _extract_filters with a free-text fallback: when no amount pattern is
\* found, the question itself becomes a LIKE filter
_extract_filters_FreeText(question) ==
    LET found == Flatten([r \in 1..Len(amount_patterns) |->
            LET caps == re_finditer(amount_patterns[r].pattern, question)
            IN  [m \in 1..Len(caps) |->
                    FilterCondition(amount_patterns[r], caps[m])]])
    IN  IF Len(found) > 0 THEN found
        ELSE << <<"description LIKE '%">> \o question \o <<"%'">> >>

_extract_filters(question) ==
    Flatten([r \in 1..Len(amount_patterns) |->
        LET caps == re_finditer(amount_patterns[r].pattern, question)
        IN  [m \in 1..Len(caps) |-> FilterCondition(amount_patterns[r], caps[m])]])

_extract_sorting(question) ==
    IF re_search(sort_desc_pattern, question) THEN Some([direction |-> "DESC"])
    ELSE IF re_search(sort_asc_pattern, question) THEN Some([direction |-> "ASC"])
    ELSE None

_extract_grouping(question) ==
    LET hit == SelectSeq(group_patterns, LAMBDA g : re_search(g.pattern, question))
    IN  [i \in 1..Len(hit) |-> hit[i].column]

\* parse_natural_language; time_patterns is the table built at construction,
\* nowDt the clock when the call is made
parse_natural_language(patterns, question, nowDt) ==
    LET tc == _extract_time_conditions(patterns, question, nowDt)
    IN  IF tc.raised THEN tc
        ELSE Returned([intent |-> _detect_intent(question),
                       entities |-> _extract_entities(question),
                       time_conditions |-> tc.value,
                       aggregations |-> _extract_aggregations(question),
                       filters |-> _extract_filters(question),
                       sorting |-> _extract_sorting(question),
                       grouping |-> _extract_grouping(question)])

(***************************************************************************)
(* Iteration order of a Python set of table names.  It is fixed by the      *)
(* string hashes, which are randomized per interpreter process              *)
(* (PYTHONHASHSEED): a process has one hash seed, and the seed decides the  *)
(* order in which the members of a set come out.                            *)
(***************************************************************************)
Tables == <<"sales", "customers", "products", "orders">>

RECURSIVE NthPermutation(_, _)
\* the n-th permutation of seq in lexicographic order, n >= 0
NthPermutation(seq, n) ==
    IF Len(seq) <= 1 THEN seq
    ELSE LET f == IF Len(seq) = 2 THEN 1 ELSE IF Len(seq) = 3 THEN 2 ELSE 6
             k == ((n \div f) % Len(seq)) + 1
             rest == [i \in 1..(Len(seq) - 1) |->
                         IF i < k THEN seq[i] ELSE seq[i + 1]]
         IN  <<seq[k]>> \o NthPermutation(rest, n % f)

\* the order in which a set of table names is iterated under a hash seed
HashOrder(seed) == NthPermutation(Tables, (seed * 5) % 24)

\* list(s) for a set s of table names
list(s, seed) == SelectSeq(HashOrder(seed), LAMBDA t : t \in s)

(***************************************************************************)
(* AdvancedSQLService: clause builders.                                     *)
(***************************************************************************)
\* the tables collected from the entities that carry one
EntityTables(parsed) ==
    {parsed.entities[i].table : i \in {j \in 1..Len(parsed.entities) :
                                        "table" \in DOMAIN parsed.entities[j]}}

BusinessEntities(parsed) ==
    SelectSeq(parsed.entities, LAMBDA e : e.type = "business_term")

\* the SELECT item of one business-term entity
SelectItem(entity) ==
    IF \E k \in 1..Len(entity.aggregation) : entity.aggregation[k] = "COUNT"
    THEN entity.aggregation \o <<"(">> \o entity.column \o <<"))">>
    ELSE entity.aggregation \o <<"(">> \o entity.column \o <<")">>

RECURSIVE AppendMissing(_, _)
\* append each grouping column that is not yet in the list
AppendMissing(columns, grouping) ==
    IF Len(grouping) = 0 THEN columns
    ELSE IF \E i \in 1..Len(columns) : columns[i] = Head(grouping)
         THEN AppendMissing(columns, Tail(grouping))
         ELSE AppendMissing(Append(columns, Head(grouping)), Tail(grouping))

\* _build_select_clause without the default `*`
_build_select_clause_NoDefault(parsed) ==
    LET terms == BusinessEntities(parsed)
    IN  Join(AppendMissing([i \in 1..Len(terms) |-> SelectItem(terms[i])],
                           parsed.grouping), <<", ">>)

_build_select_clause(parsed) ==
    LET terms == BusinessEntities(parsed)
        select_columns ==
            AppendMissing([i \in 1..Len(terms) |-> SelectItem(terms[i])],
                          parsed.grouping)
    IN  IF Len(select_columns) = 0 THEN <<"*">>
        ELSE Join(select_columns, <<", ">>)

\* _build_from_clause with another default table
_build_from_clause_OtherDefault(parsed, seed) ==
    LET main_tables == EntityTables(parsed)
    IN  IF main_tables = {} THEN "orders"
        ELSE list(main_tables, seed)[1]

_build_from_clause(parsed, seed) ==
    LET main_tables == EntityTables(parsed)
    IN  IF main_tables = {} THEN "sales"
        ELSE list(main_tables, seed)[1]

join_patterns ==
    << <<"sales", "orders", "sales.order_id = orders.id">>,
       <<"orders", "customers", "orders.customer_id = customers.id">>,
       <<"orders", "order_items", "orders.id = order_items.order_id">>,
       <<"order_items", "products", "order_items.product_id = products.id">>,
       <<"products", "companies", "products.company_id = companies.id">> >>

\* _build_joins with `or` for `and` in the membership test
_build_joins_Either(parsed) ==
    LET required_tables == EntityTables(parsed)
        used == SelectSeq(join_patterns,
                          LAMBDA j : j[1] \in required_tables
                                     \/ j[2] \in required_tables)
    IN  [i \in 1..Len(used) |-> <<"JOIN", " ", used[i][2], " ON ", used[i][3]>>]

_build_joins(parsed) ==
    LET required_tables == EntityTables(parsed)
        used == SelectSeq(join_patterns,
                          LAMBDA j : j[1] \in required_tables
                                     /\ j[2] \in required_tables)
    IN  [i \in 1..Len(used) |-> <<"JOIN", " ", used[i][2], " ON ", used[i][3]>>]

\* _build_where_clause with the filters put before the time conditions
_build_where_clause_FiltersFirst(parsed) ==
    LET withCondition == SelectSeq(parsed.entities,
                                   LAMBDA e : "condition" \in DOMAIN e)
    IN  parsed.filters \o parsed.time_conditions
        \o [i \in 1..Len(withCondition) |-> withCondition[i].condition]

_build_where_clause(parsed) ==
    LET withCondition == SelectSeq(parsed.entities,
                                   LAMBDA e : "condition" \in DOMAIN e)
    IN  parsed.time_conditions \o parsed.filters
        \o [i \in 1..Len(withCondition) |-> withCondition[i].condition]

_build_group_by(parsed) == parsed.grouping

_build_having_clause(parsed) == <<>>

_build_order_by(parsed) ==
    IF parsed.sorting = None THEN None
    ELSE LET terms == BusinessEntities(parsed)
             sort_column ==
                 IF Len(terms) = 0 THEN <<"1">>
                 ELSE terms[1].aggregation \o <<"(">> \o terms[1].column \o <<")">>
         IN  Some(sort_column \o <<" ", parsed.sorting[1].direction>>)

\* _build_limit_clause looking at the first aggregation only
_build_limit_clause_FirstOnly(parsed) ==
    IF /\ Len(parsed.aggregations) > 0
       /\ \E k \in 1..Len(parsed.aggregations[1].function) :
             parsed.aggregations[1].function[k] = "LIMIT"
    THEN Some(5)
    ELSE None

_build_limit_clause(parsed) ==
    IF \E i \in 1..Len(parsed.aggregations) :
          \E k \in 1..Len(parsed.aggregations[i].function) :
             parsed.aggregations[i].function[k] = "LIMIT"
    THEN Some(5)
    ELSE None

_build_sql_components(parsed, seed) ==
    [select |-> _build_select_clause(parsed),
     from |-> _build_from_clause(parsed, seed),
     joins |-> _build_joins(parsed),
     where |-> _build_where_clause(parsed),
     group_by |-> _build_group_by(parsed),
     having |-> _build_having_clause(parsed),
     order_by |-> _build_order_by(parsed),
     limit |-> _build_limit_clause(parsed)]

\* QueryParts without the `if components['where']` guard
QueryParts_AlwaysWhere(components) ==
    << <<"SELECT", " ">> \o components.select,
       <<"FROM", " ", components.from>> >>
    \o components.joins
    \o << <<"WHERE", " ">> \o Join(components.where, <<" AND ">>) >>
    \o (IF Len(components.group_by) # 0
        THEN << <<"GROUP BY", " ">> \o Join(components.group_by, <<", ">>) >>
        ELSE <<>>)
    \o (IF Len(components.having) # 0
        THEN << <<"HAVING", " ">> \o Join(components.having, <<" AND ">>) >>
        ELSE <<>>)
    \o (IF components.order_by # None
        THEN << <<"ORDER BY", " ">> \o components.order_by[1] >>
        ELSE <<>>)
    \o (IF components.limit # None /\ components.limit # Some(0)
        THEN << <<"LIMIT", " ">> \o str(components.limit[1]) >>
        ELSE <<>>)

\* _assemble_sql_query: the query parts (lines), joined with '\n'
QueryParts(components) ==
    << <<"SELECT", " ">> \o components.select,
       <<"FROM", " ", components.from>> >>
    \o components.joins
    \o (IF Len(components.where) # 0
        THEN << <<"WHERE", " ">> \o Join(components.where, <<" AND ">>) >>
        ELSE <<>>)
    \o (IF Len(components.group_by) # 0
        THEN << <<"GROUP BY", " ">> \o Join(components.group_by, <<", ">>) >>
        ELSE <<>>)
    \o (IF Len(components.having) # 0
        THEN << <<"HAVING", " ">> \o Join(components.having, <<" AND ">>) >>
        ELSE <<>>)
    \o (IF components.order_by # None
        THEN << <<"ORDER BY", " ">> \o components.order_by[1] >>
        ELSE <<>>)
    \o (IF components.limit # None /\ components.limit # Some(0)
        THEN << <<"LIMIT", " ">> \o str(components.limit[1]) >>
        ELSE <<>>)

_assemble_sql_query(components) == Join(QueryParts(components), <<"\n">>)

(***************************************************************************)
(* QueryOptimizer.  Its regular expressions are applied to the SQL text     *)
(* with re.IGNORECASE; on chunks, a keyword matches the chunk that is that  *)
(* word in any letter case, and `.` does not cross the chunk "\n".          *)
(***************************************************************************)
CaseFold(chunk) ==
    CASE chunk = "select" -> "SELECT" [] chunk = "from" -> "FROM"
      [] chunk = "join" -> "JOIN" [] chunk = "where" -> "WHERE"
      [] chunk = "sum" -> "SUM" [] chunk = "avg" -> "AVG"
      [] chunk = "count" -> "COUNT" [] chunk = "max" -> "MAX"
      [] chunk = "min" -> "MIN" [] chunk = "group by" -> "GROUP BY"
      [] chunk = "order by" -> "ORDER BY" [] chunk = "limit" -> "LIMIT"
      [] OTHER -> chunk

IsWord(sql, i, word) == i <= Len(sql) /\ CaseFold(sql[i]) = word
SameLine(sql, i, j) == \A k \in i..j : sql[k] # "\n"
Count(sql, words) == Cardinality({i \in 1..Len(sql) : CaseFold(sql[i]) \in words})

RECURSIVE InOrderFrom(_, _, _, _)
\* words[k..] occur in this order at positions >= i, all before the line ends;
\* the value is the set of positions where the last word can end
InOrderFrom(words, k, sql, i) ==
    IF k > Len(words) THEN {i}
    ELSE UNION {InOrderFrom(words, k + 1, sql, j + 1) :
                   j \in {j \in i..Len(sql) :
                             IsWord(sql, j, words[k]) /\ SameLine(sql, i, j)}}

\* re.search of w1.*w2.*...wn, optionally followed by .*(?!word)
RuleMatches(pattern, sql) ==
    \E start \in 1..Len(sql) :
       /\ IsWord(sql, start, pattern.words[1])
       /\ \E e \in InOrderFrom(pattern.words, 2, sql, start + 1) :
             \/ pattern.notFollowedBy = None
             \/ \E q \in e..(Len(sql) + 1) :
                   /\ SameLine(sql, e, q - 1)
                   /\ ~IsWord(sql, q, pattern.notFollowedBy[1])

\* _initialize_optimization_rules
optimization_rules ==
    << [name |-> "index_hint",
        \* r'WHERE.*customers\.city'
        pattern |-> [words |-> <<"WHERE", "customers.city">>, notFollowedBy |-> None],
        \* customers.city 컬럼에 인덱스 생성을 고려해보세요.
        suggestion |-> "consider an index on customers.city",
        optimization |-> Some("CREATE INDEX idx_customers_city ON customers(city);")],
       [name |-> "join_optimization",
        \* r'JOIN.*JOIN.*JOIN'
        pattern |-> [words |-> <<"JOIN", "JOIN", "JOIN">>, notFollowedBy |-> None],
        \* 다중 JOIN 쿼리입니다. 필요한 컬럼만 SELECT하는 것을 권장합니다.
        suggestion |-> "multi-JOIN query: select only the needed columns",
        optimization |-> None],
       [name |-> "limit_suggestion",
        \* r'ORDER BY.*(?!LIMIT)'
        pattern |-> [words |-> <<"ORDER BY">>, notFollowedBy |-> Some("LIMIT")],
        \* 정렬 쿼리에 LIMIT를 추가하면 성능이 향상됩니다.
        suggestion |-> "adding LIMIT to a sorted query improves performance",
        optimization |-> None] >>

Aggregates == {"SUM", "AVG", "COUNT", "MAX", "MIN"}

\* len(re.findall(r'\bSELECT\b.*\bFROM\b.*\bSELECT\b', sql)): both .* are
\* greedy, so a line holds at most one match
NestedSelectCount(sql) ==
    LET starts == {i \in 1..(Len(sql) + 1) : i = 1 \/ sql[i - 1] = "\n"}
    IN  Cardinality({b \in starts :
           \E i \in b..Len(sql) :
              /\ SameLine(sql, b, i)
              /\ IsWord(sql, i, "SELECT")
              /\ InOrderFrom(<<"FROM", "SELECT">>, 1, sql, i + 1) # {}})

\* len(re.findall(r'\(\s*SELECT\b', sql))
ParenSelectCount(sql) ==
    Cardinality({i \in 1..Len(sql) :
        /\ sql[i] = "("
        /\ IsWord(sql, SkipWhile(sql, i + 1, {" ", "\n"}), "SELECT")})

\* Tier with the bounds excluded (`<` for `<=`)
Tier_Exclusive(complexity_score) ==
    IF complexity_score < 3 THEN "low"
    ELSE IF complexity_score < 8 THEN "medium"
    ELSE "high"

Tier(complexity_score) ==
    IF complexity_score <= 3 THEN "low"
    ELSE IF complexity_score <= 8 THEN "medium"
    ELSE "high"

_analyze_performance(sql) ==
    LET join_count == Count(sql, {"JOIN"})
        subquery_count == NestedSelectCount(sql)
        aggregation_count == Count(sql, Aggregates)
    IN  [estimated_complexity |->
             Tier(join_count * 2 + subquery_count * 3 + aggregation_count * 1),
         join_count |-> join_count,
         subquery_count |-> subquery_count,
         aggregation_count |-> aggregation_count]

\* _calculate_complexity with `score =` for `score +=` at the aggregate step
_calculate_complexity_Assign(sql) ==
    Count(sql, Aggregates)
      + (IF Count(sql, {"GROUP BY"}) > 0 THEN 2 ELSE 0)
      + (IF Count(sql, {"ORDER BY"}) > 0 THEN 1 ELSE 0)

\* _calculate_complexity with 1 added for GROUP BY, as for ORDER BY
_calculate_complexity_GroupOne(sql) ==
    1 + Count(sql, {"JOIN"}) * 2
      + ParenSelectCount(sql) * 3
      + Count(sql, Aggregates)
      + (IF Count(sql, {"GROUP BY"}) > 0 THEN 1 ELSE 0)
      + (IF Count(sql, {"ORDER BY"}) > 0 THEN 1 ELSE 0)

_calculate_complexity(sql) ==
    1 + Count(sql, {"JOIN"}) * 2
      + ParenSelectCount(sql) * 3
      + Count(sql, Aggregates)
      + (IF Count(sql, {"GROUP BY"}) > 0 THEN 2 ELSE 0)
      + (IF Count(sql, {"ORDER BY"}) > 0 THEN 1 ELSE 0)

\* optimize_query with the suggestion appended under `if rule['optimization']`
optimize_query_DdlOnly(sql) ==
    LET fired == SelectSeq(optimization_rules,
                           LAMBDA rule : RuleMatches(rule.pattern, sql))
        withDdl == SelectSeq(fired, LAMBDA rule : rule.optimization # None)
    IN  [suggestions |-> [i \in 1..Len(withDdl) |-> withDdl[i].suggestion],
         optimizations |-> [i \in 1..Len(withDdl) |-> withDdl[i].optimization[1]],
         performance_analysis |-> _analyze_performance(sql),
         complexity_score |-> _calculate_complexity(sql)]

\* optimize_query leaving the loop at the first rule that matches
optimize_query_FirstMatch(sql) ==
    LET fired == SelectSeq(optimization_rules,
                           LAMBDA rule : RuleMatches(rule.pattern, sql))
        first == SubSeq(fired, 1, IF Len(fired) > 0 THEN 1 ELSE 0)
        withDdl == SelectSeq(first, LAMBDA rule : rule.optimization # None)
    IN  [suggestions |-> [i \in 1..Len(first) |-> first[i].suggestion],
         optimizations |-> [i \in 1..Len(withDdl) |-> withDdl[i].optimization[1]],
         performance_analysis |-> _analyze_performance(sql),
         complexity_score |-> _calculate_complexity(sql)]

optimize_query(sql) ==
    LET fired == SelectSeq(optimization_rules,
                           LAMBDA rule : RuleMatches(rule.pattern, sql))
        withDdl == SelectSeq(fired, LAMBDA rule : rule.optimization # None)
    IN  [suggestions |-> [i \in 1..Len(fired) |-> fired[i].suggestion],
         optimizations |-> [i \in 1..Len(withDdl) |-> withDdl[i].optimization[1]],
         performance_analysis |-> _analyze_performance(sql),
         complexity_score |-> _calculate_complexity(sql)]

(***************************************************************************)
(* AdvancedSQLService: explanation and the orchestrator.                    *)
(***************************************************************************)
\* intent_descriptions.get(intent, '일반 조회')
IntentDescription(intent) ==
    CASE intent = "comparison" -> "comparison analysis"    \* 데이터 비교 분석
      [] intent = "trend" -> "trend analysis"              \* 트렌드 분석
      [] intent = "ranking" -> "ranking analysis"          \* 순위 분석
      [] intent = "distribution" -> "distribution analysis" \* 분포 분석
      [] intent = "aggregation" -> "aggregation analysis"  \* 집계 분석
      [] OTHER -> "general query"                          \* 일반 조회

\* complexity_desc.get(complexity, '보통')
ComplexityDescription(complexity) ==
    CASE complexity = "low" -> "low"        \* 낮음
      [] complexity = "high" -> "high"      \* 높음
      [] OTHER -> "medium"                  \* 보통

_generate_explanation(parsed, components, optimization, seed) ==
    LET tables == list(EntityTables(parsed), seed)
        explanation_parts ==
            << <<"**query analysis result:**">>,
               <<"- **analysis type**: ", IntentDescription(parsed.intent)>> >>
            \o (IF Len(tables) # 0
                THEN << <<"- **target tables**: ">>
                        \o Join([i \in 1..Len(tables) |-> <<tables[i]>>], <<", ">>) >>
                ELSE <<>>)
            \o (IF Len(parsed.time_conditions) # 0
                THEN << <<"- **time conditions**: ">>
                        \o str(Len(parsed.time_conditions)) \o <<" applied">> >>
                ELSE <<>>)
            \o (IF Len(parsed.grouping) # 0
                THEN << <<"- **grouping**: ">> \o Join(parsed.grouping, <<", ">>) >>
                ELSE <<>>)
            \o << <<"- **query complexity**: ",
                    ComplexityDescription(
                        optimization.performance_analysis.estimated_complexity),
                    " (score: ">>
                  \o str(optimization.complexity_score) \o <<")">> >>
            \o (IF Len(optimization.suggestions) # 0
                THEN << <<"\n", "**optimization suggestions:**">> >>
                     \o [i \in 1..Len(optimization.suggestions) |->
                            <<"- ", optimization.suggestions[i]>>]
                ELSE <<>>)
    IN  Join(explanation_parts, <<"\n">>)

\* the one member of a singleton set; {F(x) : x \in {e}} evaluates e once and
\* names its value x
Only(S) == CHOOSE v \in S : TRUE

\* the body of the try block of generate_advanced_sql: the value of every
\* stage (p: parse, c: components, q: assembled text, o: optimizer report),
\* or the exception the first failing stage raised
TryBody(patterns, question, nowDt, seed) ==
    Only({ IF p.raised THEN p
           ELSE Only({ Only({ Only({
                    Returned([parsed |-> p.value,
                              sql_components |-> c,
                              sql_query |-> q,
                              optimization |-> o,
                              explanation |->
                                  _generate_explanation(p.value, c, o, seed)])
                    : o \in {optimize_query(q)} })
                    : q \in {_assemble_sql_query(c)} })
                    : c \in {_build_sql_components(p.value, seed)} })
           : p \in {parse_natural_language(patterns, question, nowDt)} })

\* Completion without the except clause: the exception leaves the call
Completion_NoExcept(body) ==
    IF body.raised
    THEN [propagated |-> TRUE, error |-> body.error]
    ELSE [propagated |-> FALSE,
          result |-> [success |-> TRUE,
                      sql_query |-> Some(body.value.sql_query),
                      parsed_intent |-> body.value.parsed,
                      optimization |-> body.value.optimization,
                      explanation |-> body.value.explanation,
                      complexity_score |-> body.value.optimization.complexity_score]]

\* what a call of generate_advanced_sql ends with, given its try block:
\* a returned dict; `except Exception` lets no exception out
Completion(body) ==
    IF body.raised
    THEN [propagated |-> FALSE,
          result |-> [success |-> FALSE, error |-> body.error, sql_query |-> None,
                      \* SQL 생성 중 오류가 발생했습니다: {str(e)}
                      explanation |-> <<"error while generating SQL: ", body.error>>]]
    ELSE [propagated |-> FALSE,
          result |-> [success |-> TRUE,
                      sql_query |-> Some(body.value.sql_query),
                      parsed_intent |-> body.value.parsed,
                      optimization |-> body.value.optimization,
                      explanation |-> body.value.explanation,
                      complexity_score |-> body.value.optimization.complexity_score]]

generate_advanced_sql(patterns, question, nowDt, seed) ==
    Only({Completion(body) : body \in {TryBody(patterns, question, nowDt, seed)}})

(***************************************************************************)
(* AdvancedSQLService: construction.  inspect(engine) and the inspector      *)
(* calls either raise or give the catalog of the database.                  *)
(***************************************************************************)
\* what the inspector reports for a reachable database
Catalog ==
    << [table |-> "sales",
        columns |-> << [name |-> "amount", type |-> "NUMERIC"],
                       [name |-> "sale_date", type |-> "DATE"] >>,
        foreign_keys |-> <<"order_id -> orders.id">>,
        indexes |-> <<>>],
       [table |-> "customers",
        columns |-> << [name |-> "city", type |-> "VARCHAR"] >>,
        foreign_keys |-> <<>>,
        indexes |-> <<"idx_customers_city">>] >>

\* the outcomes of the introspection calls
Inspections ==
    {Returned(Catalog),
     Raised("OperationalError: could not connect to server")}

\* _load_schema_info: a dict from table name to its columns, foreign keys and
\* indexes; `except Exception` logs and returns the empty dict
_load_schema_info(inspection) ==
    IF inspection.raised THEN <<>>
    ELSE LET tables == inspection.value
             entry(name) == CHOOSE e \in {tables[i] : i \in 1..Len(tables)} :
                               e.table = name
         IN  [table_name \in {tables[i].table : i \in 1..Len(tables)} |->
                 [columns |-> [col \in {entry(table_name).columns[k].name :
                                           k \in 1..Len(entry(table_name).columns)} |->
                                  (CHOOSE c \in {entry(table_name).columns[k] :
                                                   k \in 1..Len(entry(table_name).columns)} :
                                      c.name = col).type],
                  foreign_keys |-> entry(table_name).foreign_keys,
                  indexes |-> entry(table_name).indexes]]

(***************************************************************************)
(* The state machine: one interpreter process holding the module-level      *)
(* service instance, a clock, and a client that composes a question and     *)
(* submits it, possibly several times.  A second machine (SpecScore) edits  *)
(* an SQL text and runs the optimizer on it.                                *)
(***************************************************************************)
VARIABLES
    now,            \* the clock tick: datetime.now() is Instant(now)
    hash_seed,      \* the string-hash seed of the running interpreter process
    time_patterns,  \* nlp.time_patterns, built when the service was constructed
    question,       \* the phrases of the question composed so far
    call,           \* the latest generate_advanced_sql call on it, or None
    previous,       \* the call on the same question before that one, or None
    sql_text,       \* SpecScore: the SQL text given to the optimizer
    report,         \* SpecScore: optimize_query(sql_text)
    prior,          \* SpecScore: the text and report before the last edit, or None
    introspection,  \* the outcome of the introspection at construction, or None
    schema_info,    \* service.schema_info, or None while there is no instance
    threads,        \* SpecShared: the frame of each thread's call
    sql_components  \* SpecAssemble: the components given to the assembler, or None

serviceVars == <<now, hash_seed, time_patterns, question, call, previous>>
scoreVars == <<sql_text, report, prior, sql_components>>
sharedVars == <<introspection, schema_info, threads>>
vars == <<now, hash_seed, time_patterns, question, call, previous,
          sql_text, report, prior, introspection, schema_info, threads,
          sql_components>>

\* the phrases a question is composed of
Phrases ==
    << <<"mae", "chul">>,                                \* 매출
       <<"go", "gaek", " ", "su", "ik">>,                \* 고객 수익
       <<"je", "pum", " ", "su">>,                       \* 제품 수
       <<"ju", "mun", " ", "su">>,                       \* 주문 수
       <<"seo", "ul">>,                                  \* 서울
       <<"bu", "san">>,                                  \* 부산
       <<"ui", "ryu">>,                                  \* 의류
       <<"ji", "nan", " ", "7", "il">>,                  \* 지난 7일
       <<"ji", "nan", " ", "3", "0", "0", "0", "nyeon">>, \* 지난 3000년
       <<"ji", "nan", " ", "dal">>,                      \* 지난 달
       <<"sang", "wi", " ", "5", "gae">>,                \* 상위 5개
       <<"t", "o", "p", " ", "3">>,                      \* top 3
       <<"T", "O", "P", " ", "5">>,                      \* TOP 5
       <<"nop", "eun", " ", "sun">>,                     \* 높은 순
       <<"wol", "byeol">>,                               \* 월별
       <<"ji", "yeok", "byeol">>,                        \* 지역별
       <<"3", "0", "se", " ", "yi", "sang">>,            \* 30세 이상
       <<"bi", "gyo">>,                                  \* 비교
       <<"chong">>,                                      \* 총
       <<"hyeon", "hwang">>,                             \* 현황
       <<"ji", "nan", " ", "3", "gae", "wol">>,          \* 지난 3개월
       <<"hoe", "won", " ", "su">> >>                    \* 회원 수

MaxThreads == 2     \* threads calling the shared instance

\* the frame of a thread that is not in a call
IdleFrame ==
    [pc |-> "idle", question |-> <<>>, overlapped |-> FALSE,
     parsed |-> None, sql_components |-> None, sql_query |-> None,
     optimization |-> None, explanation |-> None, error |-> None,
     result |-> None]

\* the string passed to generate_advanced_sql
QuestionText(phrases) == Join(phrases, <<" ">>)

\* AdvancedSQLService(): the module-level instance, constructed at import
Construct(tick) == _initialize_time_patterns(Instant(tick))

Init ==
    /\ now = 0
    /\ hash_seed \in 0..MaxSeed
    /\ time_patterns = Construct(0)
    /\ question = <<>>
    /\ call = None
    /\ previous = None
    /\ sql_text = <<>>
    /\ report = None
    /\ prior = None
    /\ introspection = Some(Returned(Catalog))
    /\ schema_info = Some(_load_schema_info(Returned(Catalog)))
    /\ threads = [t \in 1..MaxThreads |-> IdleFrame]
    /\ sql_components = None

\* the client adds a phrase to the question
Type(p) ==
    /\ call = None
    /\ Len(question) < MaxPhrases
    /\ question' = Append(question, Phrases[p])
    /\ UNCHANGED <<now, hash_seed, time_patterns, call, previous>>
    /\ UNCHANGED scoreVars
    /\ UNCHANGED sharedVars

\* advanced_sql_service.generate_advanced_sql(question); the client submits a
\* question at most twice.  `live` says that the instance that answered is
\* still the module's instance.
Generate ==
    /\ previous = None
    /\ \E body \in {TryBody(time_patterns, QuestionText(question), Instant(now),
                             hash_seed)} :
          call' = Some([body |-> body, outcome |-> Completion(body),
                        live |-> TRUE])
    /\ previous' = call
    /\ UNCHANGED <<now, hash_seed, time_patterns, question>>
    /\ UNCHANGED scoreVars
    /\ UNCHANGED sharedVars

\* the client starts a new question
NewQuestion ==
    /\ call # None
    /\ question' = <<>>
    /\ call' = None
    /\ previous' = None
    /\ UNCHANGED <<now, hash_seed, time_patterns>>
    /\ UNCHANGED scoreVars
    /\ UNCHANGED sharedVars

\* time passes
Tick ==
    /\ now < MaxTick
    /\ now' = now + 1
    /\ UNCHANGED <<hash_seed, time_patterns, question, call, previous>>
    /\ UNCHANGED scoreVars
    /\ UNCHANGED sharedVars

\* an answer given by an instance that is gone
Gone(c) == IF c = None THEN None ELSE Some([c[1] EXCEPT !.live = FALSE])

\* the process is restarted: a new hash seed, the service constructed anew
Restart ==
    /\ hash_seed' \in 0..MaxSeed
    /\ time_patterns' = Construct(now)
    /\ call' = Gone(call)
    /\ previous' = Gone(previous)
    /\ schema_info' = Some(_load_schema_info(introspection[1]))
    /\ UNCHANGED <<now, question, introspection, threads>>
    /\ UNCHANGED scoreVars

Next ==
    \/ \E p \in 1..Len(Phrases) : Type(p)
    \/ Generate
    \/ NewQuestion
    \/ Tick
    \/ Restart

Spec == Init /\ [][Next]_vars

(***************************************************************************)
(* SpecScore: the optimizer applied to SQL texts built chunk by chunk.      *)
(***************************************************************************)
MaxSqlLen == 3       \* chunks per SQL text

SqlChunks ==
    {"SELECT", "FROM", "JOIN", "join", "(", " ", "\n", "SUM", "GROUP BY",
     "ORDER BY"}

InitScore ==
    /\ now = 0
    /\ hash_seed = 0
    /\ time_patterns = <<>>
    /\ question = <<>>
    /\ call = None
    /\ previous = None
    /\ sql_text = <<>>
    /\ report = Some(optimize_query(<<>>))
    /\ prior = None
    /\ introspection = Some(Returned(Catalog))
    /\ schema_info = Some(_load_schema_info(Returned(Catalog)))
    /\ threads = [t \in 1..MaxThreads |-> IdleFrame]
    /\ sql_components = None

\* optimizer.optimize_query on the text with one more chunk
AppendChunk(c) ==
    /\ Len(sql_text) < MaxSqlLen
    /\ sql_text' = Append(sql_text, c)
    /\ report' = Some(optimize_query(sql_text'))
    /\ prior' = Some([sql_text |-> sql_text, report |-> report[1]])
    /\ UNCHANGED sql_components
    /\ UNCHANGED serviceVars
    /\ UNCHANGED sharedVars

\* optimizer.optimize_query on the text without its last chunk
DropChunk ==
    /\ Len(sql_text) > 0
    /\ sql_text' = SubSeq(sql_text, 1, Len(sql_text) - 1)
    /\ report' = Some(optimize_query(sql_text'))
    /\ prior' = Some([sql_text |-> sql_text, report |-> report[1]])
    /\ UNCHANGED sql_components
    /\ UNCHANGED serviceVars
    /\ UNCHANGED sharedVars

NextScore ==
    \/ \E c \in SqlChunks : AppendChunk(c)
    \/ DropChunk

SpecScore == InitScore /\ [][NextScore]_vars

(***************************************************************************)
(* SpecShared: the module is imported, which constructs the service, and    *)
(* threads then call generate_advanced_sql on the one instance.  A call is  *)
(* a sequence of steps, one per statement of the try block; the threads'    *)
(* steps interleave.  The local variables of a call live in its own frame.  *)
(***************************************************************************)
\* the questions the threads ask
ThreadQuestions ==
    { <<Phrases[1]>>, <<Phrases[9]>>, <<Phrases[2], Phrases[5]>>,
      <<Phrases[15], Phrases[14]>>, <<Phrases[5], Phrases[2]>>,
      <<Phrases[1], Phrases[20]>>, <<Phrases[17]>> }

InFlight(frame) == frame.pc \notin {"idle", "done"}

\* Frame with `parsed` kept in an attribute of the shared instance: once
\* thread 1 has parsed, every thread's later statements read that value
Frame_OnInstance(frames, t) ==
    IF frames[1].parsed # None
    THEN [frames[t] EXCEPT !.parsed = frames[1].parsed]
    ELSE frames[t]

\* the local variables of thread t's call
Frame(frames, t) == frames[t]

InitShared ==
    /\ now = 0
    /\ hash_seed \in 0..MaxSeed
    /\ time_patterns = <<>>
    /\ question = <<>>
    /\ call = None
    /\ previous = None
    /\ sql_text = <<>>
    /\ report = None
    /\ prior = None
    /\ introspection = None
    /\ schema_info = None
    /\ threads = [t \in 1..MaxThreads |-> IdleFrame]
    /\ sql_components = None

\* `advanced_sql_service = AdvancedSQLService()` when the module is imported
Import ==
    /\ schema_info = None
    /\ \E inspection \in Inspections :
          /\ introspection' = Some(inspection)
          /\ schema_info' = Some(_load_schema_info(inspection))
    /\ time_patterns' = Construct(now)
    /\ UNCHANGED <<now, hash_seed, question, call, previous, threads>>
    /\ UNCHANGED scoreVars

\* thread t enters generate_advanced_sql(q)
Call(t, q) ==
    /\ schema_info # None
    /\ threads[t].pc = "idle"
    /\ threads' = [u \in 1..MaxThreads |->
          IF u = t
          THEN [IdleFrame EXCEPT !.pc = "parse", !.question = q,
                                 !.overlapped = \E v \in 1..MaxThreads :
                                                   InFlight(threads[v])]
          ELSE IF InFlight(threads[u])
               THEN [threads[u] EXCEPT !.overlapped = TRUE]
               ELSE threads[u]]
    /\ UNCHANGED <<introspection, schema_info>>
    /\ UNCHANGED serviceVars
    /\ UNCHANGED scoreVars

\* parsed = self.nlp.parse_natural_language(question)
Parse(t) ==
    /\ threads[t].pc = "parse"
    /\ \E f \in {Frame(threads, t)} :
       \E p \in {parse_natural_language(time_patterns, QuestionText(f.question),
                                        Instant(now))} :
          threads' = [threads EXCEPT ![t] =
              IF p.raised
              THEN [f EXCEPT !.pc = "except", !.error = Some(p.error)]
              ELSE [f EXCEPT !.pc = "build", !.parsed = Some(p.value)]]
    /\ UNCHANGED <<introspection, schema_info>>
    /\ UNCHANGED serviceVars
    /\ UNCHANGED scoreVars

\* sql_components = self._build_sql_components(parsed)
Build(t) ==
    /\ threads[t].pc = "build"
    /\ \E f \in {Frame(threads, t)} :
          threads' = [threads EXCEPT ![t] =
              [f EXCEPT !.pc = "assemble",
                        !.sql_components =
                            Some(_build_sql_components(f.parsed[1], hash_seed))]]
    /\ UNCHANGED <<introspection, schema_info>>
    /\ UNCHANGED serviceVars
    /\ UNCHANGED scoreVars

\* sql_query = self._assemble_sql_query(sql_components)
Assemble(t) ==
    /\ threads[t].pc = "assemble"
    /\ \E f \in {Frame(threads, t)} :
          threads' = [threads EXCEPT ![t] =
              [f EXCEPT !.pc = "optimize",
                        !.sql_query =
                            Some(_assemble_sql_query(f.sql_components[1]))]]
    /\ UNCHANGED <<introspection, schema_info>>
    /\ UNCHANGED serviceVars
    /\ UNCHANGED scoreVars

\* optimization = self.optimizer.optimize_query(sql_query)
Optimize(t) ==
    /\ threads[t].pc = "optimize"
    /\ \E f \in {Frame(threads, t)} :
          threads' = [threads EXCEPT ![t] =
              [f EXCEPT !.pc = "explain",
                        !.optimization = Some(optimize_query(f.sql_query[1]))]]
    /\ UNCHANGED <<introspection, schema_info>>
    /\ UNCHANGED serviceVars
    /\ UNCHANGED scoreVars

\* explanation = self._generate_explanation(parsed, sql_components, optimization)
Explain(t) ==
    /\ threads[t].pc = "explain"
    /\ \E f \in {Frame(threads, t)} :
          threads' = [threads EXCEPT ![t] =
              [f EXCEPT !.pc = "return",
                        !.explanation =
                            Some(_generate_explanation(f.parsed[1],
                                     f.sql_components[1], f.optimization[1],
                                     hash_seed))]]
    /\ UNCHANGED <<introspection, schema_info>>
    /\ UNCHANGED serviceVars
    /\ UNCHANGED scoreVars

\* the return statement of the try block
Return(t) ==
    /\ threads[t].pc = "return"
    /\ \E f \in {Frame(threads, t)} :
          threads' = [threads EXCEPT ![t] =
              [f EXCEPT !.pc = "done",
                        !.result = Some(Completion(Returned(
                            [parsed |-> f.parsed[1],
                             sql_components |-> f.sql_components[1],
                             sql_query |-> f.sql_query[1],
                             optimization |-> f.optimization[1],
                             explanation |-> f.explanation[1]])).result)]]
    /\ UNCHANGED <<introspection, schema_info>>
    /\ UNCHANGED serviceVars
    /\ UNCHANGED scoreVars

\* the except clause
Except(t) ==
    /\ threads[t].pc = "except"
    /\ \E f \in {Frame(threads, t)} :
          threads' = [threads EXCEPT ![t] =
              [f EXCEPT !.pc = "done",
                        !.result = Some(Completion(Raised(f.error[1])).result)]]
    /\ UNCHANGED <<introspection, schema_info>>
    /\ UNCHANGED serviceVars
    /\ UNCHANGED scoreVars

NextShared ==
    \/ Import
    \/ \E t \in 1..MaxThreads : \E q \in ThreadQuestions : Call(t, q)
    \/ \E t \in 1..MaxThreads : Parse(t)
    \/ \E t \in 1..MaxThreads : Build(t)
    \/ \E t \in 1..MaxThreads : Assemble(t)
    \/ \E t \in 1..MaxThreads : Optimize(t)
    \/ \E t \in 1..MaxThreads : Explain(t)
    \/ \E t \in 1..MaxThreads : Return(t)
    \/ \E t \in 1..MaxThreads : Except(t)

SpecShared == InitShared /\ [][NextShared]_vars

(***************************************************************************)
(* SpecAssemble: _assemble_sql_query applied to component dicts, and the    *)
(* optimizer applied to the text it returns.  The components are edited one  *)
(* clause at a time; the joins are lines of the join graph, in its order.   *)
(***************************************************************************)
\* the line _build_joins emits for edge k of join_patterns
JoinLine(k) == <<"JOIN", " ", join_patterns[k][2], " ON ", join_patterns[k][3]>>

\* the components of a question that matches no rule
BaseComponents ==
    [select |-> <<"*">>, from |-> "sales", joins |-> <<>>, where |-> <<>>,
     group_by |-> <<>>, having |-> <<>>, order_by |-> None, limit |-> None]

\* the values each clause component takes
ClauseValues ==
    [select |-> {<<"*">>, <<"SUM", "(", "sales.amount", ")">>},
     where |-> {<<>>, << <<"customers.city", " = '", "seo", "ul", "'">> >>},
     group_by |-> {<<>>, << <<"customers.city">> >>},
     order_by |-> {None, Some(<<"1", " ", "DESC">>),
                   Some(<<"SUM", "(", "sales.amount", ")", " ", "DESC">>)},
     limit |-> {None, Some(5)}]

InitAssemble ==
    /\ now = 0
    /\ hash_seed = 0
    /\ time_patterns = <<>>
    /\ question = <<>>
    /\ call = None
    /\ previous = None
    /\ sql_text = _assemble_sql_query(BaseComponents)
    /\ report = Some(optimize_query(_assemble_sql_query(BaseComponents)))
    /\ prior = None
    /\ introspection = Some(Returned(Catalog))
    /\ schema_info = Some(_load_schema_info(Returned(Catalog)))
    /\ threads = [t \in 1..MaxThreads |-> IdleFrame]
    /\ sql_components = Some(BaseComponents)

\* sql_query = self._assemble_sql_query(sql_components);
\* optimization = self.optimizer.optimize_query(sql_query)
Reassemble(components) ==
    /\ sql_components' = Some(components)
    /\ \E q \in {_assemble_sql_query(components)} :
          /\ sql_text' = q
          /\ report' = Some(optimize_query(q))
    /\ UNCHANGED prior
    /\ UNCHANGED serviceVars
    /\ UNCHANGED sharedVars

\* one more join, of an edge after those already joined
AddJoin(k) ==
    /\ \A i \in 1..Len(sql_components[1].joins) :
          \E j \in 1..(k - 1) : sql_components[1].joins[i] = JoinLine(j)
    /\ Reassemble([sql_components[1] EXCEPT !.joins = Append(@, JoinLine(k))])

\* another value for one clause component
SetClause(field, value) ==
    /\ sql_components[1][field] # value
    /\ Reassemble([sql_components[1] EXCEPT ![field] = value])

NextAssemble ==
    \/ \E k \in 1..Len(join_patterns) : AddJoin(k)
    \/ \E field \in DOMAIN ClauseValues :
          \E value \in ClauseValues[field] : SetClause(field, value)

SpecAssemble == InitAssemble /\ [][NextAssemble]_vars

(***************************************************************************)
(* Properties.                                                              *)
(***************************************************************************)
RECURSIVE SplitLines(_)
\* the lines of a text
SplitLines(text) ==
    LET breaks == {i \in 1..Len(text) : text[i] = "\n"}
    IN  IF breaks = {} THEN <<text>>
        ELSE LET b == CHOOSE i \in breaks : \A j \in breaks : i <= j
             IN  <<SubSeq(text, 1, b - 1)>>
                 \o SplitLines(SubSeq(text, b + 1, Len(text)))

\* the lines of a text that start with a keyword
ClauseLines(text, keyword) ==
    SelectSeq(SplitLines(text), LAMBDA l : Len(l) > 0 /\ l[1] = keyword)

Succeeded(c) == ~c.outcome.propagated /\ c.outcome.result.success
CallSucceeded == call # None /\ Succeeded(call[1])
BothSucceeded ==
    /\ call # None /\ previous # None
    /\ Succeeded(call[1]) /\ Succeeded(previous[1])
AskedText == QuestionText(question)
HasPhrase(p) == \E i \in 1..Len(question) : question[i] = Phrases[p]

AnyPatternMatches(rules, text) ==
    \E r \in 1..Len(rules) : re_search(rules[r].pattern, text)

BusinessTermMatches(text) ==
    \E t \in 1..Len(business_terms) :
       \E k \in 1..Len(business_terms[t].patterns) :
          re_search(business_terms[t].patterns[k], text)

RuleMatches_Any(text) ==
    \/ BusinessTermMatches(text)
    \/ AnyPatternMatches(time_patterns, text)
    \/ AnyPatternMatches(aggregation_terms, text)
    \/ AnyPatternMatches(amount_patterns, text)
    \/ AnyPatternMatches(group_patterns, text)
    \/ re_search(sort_desc_pattern, text) \/ re_search(sort_asc_pattern, text)
    \/ \E i \in 1..Len(regions) : Contains(regions[i], text)
    \/ \E i \in 1..Len(categories) : Contains(categories[i], text)
    \/ \E b \in 1..Len(intent_keywords) :
          \E k \in 1..Len(intent_keywords[b].keywords) :
             Contains(intent_keywords[b].keywords[k], lower(text))

\* C1: a call never lets an exception out: when a stage raised, it returns the
\* failure variant (success False, sql_query None, the diagnostic text in error
\* and in the explanation), otherwise the success variant.
C1_NeverPropagates ==
    call # None =>
        LET c == call[1] IN
        /\ ~c.outcome.propagated
        /\ c.body.raised =>
              /\ c.outcome.result.success = FALSE
              /\ c.outcome.result.sql_query = None
              /\ c.outcome.result.error = c.body.error
              /\ c.outcome.result.explanation
                    = <<"error while generating SQL: ", c.body.error>>
        /\ ~c.body.raised =>
              /\ c.outcome.result.success = TRUE
              /\ c.outcome.result.sql_query = Some(c.body.value.sql_query)

\* C1 witness: a call whose parse stage raised, answered by the failure variant
C1_Witness ==
    /\ call # None
    /\ call[1].body.raised
    /\ ~call[1].outcome.propagated
    /\ call[1].outcome.result.success = FALSE

\* C2 (as claimed): two calls on the same question, answered by the same
\* service, return the same sql_query and the same complexity_score.
C2_Determinism ==
    (BothSucceeded /\ call[1].live /\ previous[1].live) =>
        /\ call[1].outcome.result.sql_query = previous[1].outcome.result.sql_query
        /\ call[1].outcome.result.complexity_score
              = previous[1].outcome.result.complexity_score

\* the SELECT line of a generated query
SelectLine(c) == SplitLines(c.outcome.result.sql_query[1])[1]

\* C3 (as claimed): when no business-term pattern matches the question, the
\* SELECT clause is exactly `*`.
C3_SelectStarWithoutTerm ==
    (CallSucceeded /\ ~BusinessTermMatches(AskedText)) =>
        SelectLine(call[1]) = <<"SELECT", " ", "*">>

\* C3 (amended): when no business-term pattern and no grouping pattern matches
\* the question, the SELECT clause is exactly `*`.
C3_SelectStarWithoutTermOrGrouping ==
    (/\ CallSucceeded
     /\ ~BusinessTermMatches(AskedText)
     /\ ~AnyPatternMatches(group_patterns, AskedText)) =>
        SelectLine(call[1]) = <<"SELECT", " ", "*">>

\* C3 witness: a question with a location and a sort phrase, no business term
\* and no grouping, answered with SELECT *
C3_Witness ==
    /\ CallSucceeded
    /\ question = <<Phrases[5], Phrases[14]>>
    /\ SelectLine(call[1]) = <<"SELECT", " ", "*">>

\* the table of the first entity, in extraction order, that carries one
FirstEntityTable(parsed) ==
    LET carrying == SelectSeq(parsed.entities, LAMBDA e : "table" \in DOMAIN e)
    IN  IF Len(carrying) = 0 THEN "sales" ELSE carrying[1].table

\* C4 (as claimed): the FROM table is the table of the first entity that
\* carries a table, and `sales` when none does.
C4_FromFirstEntityTable ==
    CallSucceeded =>
        call[1].body.value.sql_components.from
            = FirstEntityTable(call[1].body.value.parsed)

\* C5 (as claimed): two runs of component building and assembly on equal
\* ParsedQuery values give the same SQL text.
C5_AssemblyFunctionOfParsed ==
    (BothSucceeded /\ call[1].body.value.parsed = previous[1].body.value.parsed) =>
        call[1].body.value.sql_query = previous[1].body.value.sql_query

\* C6 (as claimed): a top-N question gets intent ranking and an SQL text with
\* an ORDER BY clause followed by LIMIT 5.
C6_TopNShape ==
    (CallSucceeded /\ (HasPhrase(11) \/ HasPhrase(12) \/ HasPhrase(13))) =>
        LET lines == SplitLines(call[1].outcome.result.sql_query[1]) IN
        /\ call[1].outcome.result.parsed_intent.intent = "ranking"
        /\ \E i, j \in 1..Len(lines) :
              /\ i < j
              /\ Len(lines[i]) > 0 /\ lines[i][1] = "ORDER BY"
              /\ lines[j] = <<"LIMIT", " ", "5">>

\* a top/bottom aggregation rule fires on the text
RankingRuleFires(text) ==
    \E r \in 1..Len(aggregation_terms) :
       /\ \E k \in 1..Len(aggregation_terms[r].function) :
             aggregation_terms[r].function[k] = "LIMIT"
       /\ re_search(aggregation_terms[r].pattern, text)

\* C7: the SQL text has a LIMIT clause exactly when a top/bottom rule fired on
\* the question, and every LIMIT clause is LIMIT 5.
C7_LimitIffRanking ==
    CallSucceeded =>
        LET limits == ClauseLines(call[1].outcome.result.sql_query[1], "LIMIT") IN
        /\ (Len(limits) > 0) <=> RankingRuleFires(AskedText)
        /\ \A l \in 1..Len(limits) : limits[l] = <<"LIMIT", " ", "5">>

\* C7 witness: `top 3` is asked and the query ends with LIMIT 5
C7_Witness ==
    /\ CallSucceeded
    /\ HasPhrase(12)
    /\ ClauseLines(call[1].outcome.result.sql_query[1], "LIMIT")
          = << <<"LIMIT", " ", "5">> >>

\* the counts and flags the score is claimed to depend on
Shape(text) ==
    [joins |-> Count(text, {"JOIN"}),
     subselects |-> ParenSelectCount(text),
     aggregates |-> Count(text, Aggregates),
     group_by |-> Count(text, {"GROUP BY"}) > 0,
     order_by |-> Count(text, {"ORDER BY"}) > 0]

\* a has no more of `field` than b, and the two agree on everything else
LessIn(field, a, b) ==
    /\ a[field] <= b[field]
    /\ \A f \in (DOMAIN a) \ {field} : a[f] = b[f]

\* C8: complexity_score is at least 1, and of two SQL texts that differ in
\* one of the three counts only, the one with the smaller count has no larger
\* score.
C8_ScoreMonotone ==
    /\ report # None => report[1].complexity_score >= 1
    /\ (report # None /\ prior # None) =>
          LET a == Shape(prior[1].sql_text)
              b == Shape(sql_text)
              sa == prior[1].report.complexity_score
              sb == report[1].complexity_score
          IN  \A f \in {"joins", "subselects", "aggregates"} :
                 /\ LessIn(f, a, b) => sa <= sb
                 /\ LessIn(f, b, a) => sb <= sa

\* C8 witness: an edit that adds one parenthesized sub-select and changes no
\* other count, raising the score
C8_Witness ==
    /\ report # None /\ prior # None
    /\ Shape(prior[1].sql_text).subselects = 0
    /\ Shape(sql_text).subselects = 1
    /\ LessIn("subselects", Shape(prior[1].sql_text), Shape(sql_text))
    /\ prior[1].report.complexity_score < report[1].complexity_score

\* C9 (as claimed): for identical ParsedQuery, components and optimization
\* report, the explanation is identical.
C9_ExplanationFunction ==
    (/\ BothSucceeded
     /\ call[1].body.value.parsed = previous[1].body.value.parsed
     /\ call[1].body.value.sql_components = previous[1].body.value.sql_components
     /\ call[1].body.value.optimization = previous[1].body.value.optimization) =>
        call[1].body.value.explanation = previous[1].body.value.explanation

\* C10: a question that matches no rule is answered by the success variant
\* with intent general, every list empty, no sorting, the text
\* `SELECT *` / `FROM sales`, score 1, tier low and no suggestion.
C10_NoPatternQuery ==
    (call # None /\ ~RuleMatches_Any(AskedText)) =>
        LET c == call[1]
            r == c.outcome.result
        IN  /\ ~c.outcome.propagated
            /\ r.success = TRUE
            /\ r.parsed_intent = [intent |-> "general", entities |-> <<>>,
                                  time_conditions |-> <<>>, aggregations |-> <<>>,
                                  filters |-> <<>>, sorting |-> None,
                                  grouping |-> <<>>]
            /\ r.sql_query = Some(<<"SELECT", " ", "*", "\n", "FROM", " ", "sales">>)
            /\ r.complexity_score = 1
            /\ r.optimization.complexity_score = 1
            /\ r.optimization.performance_analysis.estimated_complexity = "low"
            /\ r.optimization.suggestions = <<>>

\* C10 witness: the question 현황 matches no rule and has been answered
C10_Witness ==
    /\ CallSucceeded
    /\ question = <<Phrases[20]>>
    /\ ~RuleMatches_Any(AskedText)

\* how many patterns of the business term t match the text
TermHits(t, text) ==
    Cardinality({k \in 1..Len(business_terms[t].patterns) :
                    re_search(business_terms[t].patterns[k], text)})

\* the rule of time_patterns for `last month` (지난 달 | 저번 달)
LastMonthRule == 8

\* the text matches one revenue pattern, the last-month rule once, and no
\* other entity, time, filter, grouping or sort rule
RevenueLastMonthOnly(text) ==
    /\ TermHits(1, text) = 1
    /\ \A t \in 2..Len(business_terms) : TermHits(t, text) = 0
    /\ \A i \in 1..Len(regions) : ~Contains(regions[i], text)
    /\ \A i \in 1..Len(categories) : ~Contains(categories[i], text)
    /\ Len(re_finditer(time_patterns[LastMonthRule].pattern, text)) = 1
    /\ \A r \in (1..Len(time_patterns)) \ {LastMonthRule} :
          ~re_search(time_patterns[r].pattern, text)
    /\ ~AnyPatternMatches(amount_patterns, text)
    /\ ~AnyPatternMatches(group_patterns, text)
    /\ ~re_search(sort_desc_pattern, text) /\ ~re_search(sort_asc_pattern, text)

\* C11: a question with one revenue pattern and the last-month rule only is
\* parsed into one revenue entity with SUM and one time predicate; its SQL is
\* SELECT SUM(sales.amount), FROM sales, no JOIN, a WHERE of that predicate;
\* complexity_score is 2 and the tier is low.
C11_RevenueLastMonth ==
    (call # None /\ RevenueLastMonthOnly(AskedText)) =>
        LET c == call[1]
            r == c.outcome.result
            parsed == r.parsed_intent
            sql == r.sql_query[1]
            lines == SplitLines(sql)
        IN  /\ ~c.outcome.propagated /\ r.success = TRUE
            /\ Len(parsed.entities) = 1
            /\ parsed.entities[1].type = "business_term"
            /\ parsed.entities[1].value = "revenue"
            /\ parsed.entities[1].aggregation = <<"SUM">>
            /\ Len(parsed.time_conditions) = 1
            /\ lines[1] = <<"SELECT", " ", "SUM", "(", "sales.amount", ")">>
            /\ lines[2] = <<"FROM", " ", "sales">>
            /\ ClauseLines(sql, "JOIN") = <<>>
            /\ ClauseLines(sql, "WHERE")
                  = << <<"WHERE", " ">> \o parsed.time_conditions[1] >>
            /\ r.complexity_score = 2
            /\ r.optimization.performance_analysis.estimated_complexity = "low"

\* C11 witness: 매출 지난 달 has been answered with score 2
C11_Witness ==
    /\ CallSucceeded
    /\ question = <<Phrases[1], Phrases[10]>>
    /\ RevenueLastMonthOnly(AskedText)
    /\ call[1].outcome.result.complexity_score = 2

\* the suggestion of the rule limit_suggestion
AddLimitSuggestion ==
    (CHOOSE rule \in {optimization_rules[i] : i \in 1..Len(optimization_rules)} :
        rule.name = "limit_suggestion").suggestion

Suggested(optimization, suggestion) ==
    \E i \in 1..Len(optimization.suggestions) :
       optimization.suggestions[i] = suggestion

\* the text has GROUP BY and ORDER BY clauses and no LIMIT clause
GroupedSortedUnlimited(sql) ==
    /\ ClauseLines(sql, "GROUP BY") # <<>>
    /\ ClauseLines(sql, "ORDER BY") # <<>>
    /\ ClauseLines(sql, "LIMIT") = <<>>

\* C12: a generated query with GROUP BY and ORDER BY and no LIMIT gets the
\* add-LIMIT suggestion; and the performance analysis of every generated query
\* is the analysis of its text, whether or not a suggestion rule fired.
C12_LimitSuggestion ==
    CallSucceeded =>
        LET sql == call[1].outcome.result.sql_query[1]
            optimization == call[1].outcome.result.optimization
        IN  /\ GroupedSortedUnlimited(sql) =>
                  Suggested(optimization, AddLimitSuggestion)
            /\ optimization.performance_analysis
                  = [join_count |-> Count(sql, {"JOIN"}),
                     subquery_count |-> NestedSelectCount(sql),
                     aggregation_count |-> Count(sql, Aggregates),
                     estimated_complexity |->
                         Tier(Count(sql, {"JOIN"}) * 2 + NestedSelectCount(sql) * 3
                              + Count(sql, Aggregates))]

\* C12 witness: 월별 높은 순 gives GROUP BY and ORDER BY without LIMIT and the
\* suggestion is in the report
C12_Witness ==
    /\ CallSucceeded
    /\ question = <<Phrases[15], Phrases[14]>>
    /\ GroupedSortedUnlimited(call[1].outcome.result.sql_query[1])
    /\ Suggested(call[1].outcome.result.optimization, AddLimitSuggestion)

\* C13 (as claimed): parse_natural_language never raises: a rule whose
\* evaluation fails is skipped, and the call returns the success variant.
C13_ParseNeverRaises ==
    call # None =>
        /\ ~call[1].body.raised
        /\ call[1].outcome.result.success = TRUE

\* C14 (as claimed): when the introspection fails during construction, the
\* construction fails: there is no instance, and no call runs.
C14_FailedLoadNoService ==
    (introspection # None /\ introspection[1].raised) =>
        /\ schema_info = None
        /\ \A t \in 1..MaxThreads : threads[t].pc = "idle"

\* C15: whatever the interleaving, a finished call holds the result the call
\* gives when run alone, and the shared state is what construction made it:
\* the rule tables and schema_info are never changed by a call.
C15_CallsIndependent ==
    /\ \A t \in 1..MaxThreads :
          threads[t].pc = "done" =>
              threads[t].result
                 = Some(generate_advanced_sql(time_patterns,
                            QuestionText(threads[t].question), Instant(now),
                            hash_seed).result)
    /\ schema_info # None =>
          /\ time_patterns = Construct(now)
          /\ schema_info = Some(_load_schema_info(introspection[1]))

\* C15 witness: two calls on different questions overlapped and both finished,
\* one of them with the success variant
C15_Witness ==
    /\ threads[1].pc = "done" /\ threads[2].pc = "done"
    /\ threads[1].overlapped /\ threads[2].overlapped
    /\ threads[1].question # threads[2].question
    /\ threads[2].result[1].success

\* the SELECT list the claim describes: aggregation(column) for each
\* business-term entity, then the grouping columns not yet listed, else `*`
ClaimedSelectList(parsed) ==
    LET terms == BusinessEntities(parsed)
        items == [i \in 1..Len(terms) |->
                     terms[i].aggregation \o <<"(">> \o terms[i].column \o <<")">>]
        columns == AppendMissing(items, parsed.grouping)
    IN  IF Len(columns) = 0 THEN <<"*">> ELSE Join(columns, <<", ">>)

\* opening minus closing parentheses in a chunk of a SELECT list
Opened(chunk) ==
    CASE chunk = "(" -> 1
      [] chunk = ")" -> -1
      [] chunk = "))" -> -2
      [] chunk \in {"order_items.quantity * products.price * 0.7)",
                    " sale_date)"} -> -1
      [] OTHER -> 0

RECURSIVE Depth(_)
Depth(text) == IF Len(text) = 0 THEN 0 ELSE Opened(Head(text)) + Depth(Tail(text))

\* C16 (as claimed): the SELECT list is aggregation(column) per business-term
\* entity, with balanced parentheses, then the missing grouping columns, and
\* `*` only when it would be empty.
C16_SelectList ==
    CallSucceeded =>
        LET select == call[1].body.value.sql_components.select IN
        /\ select = ClaimedSelectList(call[1].body.value.parsed)
        /\ Depth(select) = 0

\* the join graph, in its declared order
JoinGraph ==
    << [a |-> "sales", b |-> "orders", on |-> "sales.order_id = orders.id"],
       [a |-> "orders", b |-> "customers", on |-> "orders.customer_id = customers.id"],
       [a |-> "orders", b |-> "order_items", on |-> "orders.id = order_items.order_id"],
       [a |-> "order_items", b |-> "products",
        on |-> "order_items.product_id = products.id"],
       [a |-> "products", b |-> "companies", on |-> "products.company_id = companies.id"] >>

\* the tables carried by the entities of a parsed question
Touched(parsed) ==
    {t \in {"sales", "customers", "products", "orders", "order_items", "companies"} :
        \E i \in 1..Len(parsed.entities) :
           /\ "table" \in DOMAIN parsed.entities[i]
           /\ parsed.entities[i].table = t}

\* C17: the joins are, in the declared order of the join graph, one
\* `JOIN b ON predicate` for each edge with both endpoints touched, and nothing
\* else; none when fewer than two tables are touched; the SQL text carries them.
C17_JoinsFollowGraph ==
    CallSucceeded =>
        LET touched == Touched(call[1].body.value.parsed)
            joins == call[1].body.value.sql_components.joins
            edges == SelectSeq(JoinGraph,
                               LAMBDA e : e.a \in touched /\ e.b \in touched)
        IN  /\ Len(joins) = Len(edges)
            /\ \A i \in 1..Len(edges) :
                  joins[i] = <<"JOIN", " ", edges[i].b, " ON ", edges[i].on>>
            /\ Cardinality(touched) < 2 => joins = <<>>
            /\ ClauseLines(call[1].outcome.result.sql_query[1], "JOIN") = joins

\* C17 witness: 매출 주문 수 touches sales and orders and gets the one join of
\* the edge sales-orders
C17_Witness ==
    /\ CallSucceeded
    /\ question = <<Phrases[1], Phrases[4]>>
    /\ Touched(call[1].body.value.parsed) = {"sales", "orders"}
    /\ call[1].body.value.sql_components.joins
          = << <<"JOIN", " ", "orders", " ON ", "sales.order_id = orders.id">> >>

RECURSIVE InlineConditions(_)
\* the inline conditions of the entities that have one, in entity order
InlineConditions(entities) ==
    IF Len(entities) = 0 THEN <<>>
    ELSE (IF "condition" \in DOMAIN Head(entities)
          THEN <<Head(entities).condition>> ELSE <<>>)
         \o InlineConditions(Tail(entities))

\* C18: the WHERE conditions are the time conditions, then the filters, then
\* the inline conditions of the entities in entity order; the WHERE clause is
\* these joined with ' AND ', and there is none when the list is empty.
C18_WhereConditions ==
    CallSucceeded =>
        LET parsed == call[1].body.value.parsed
            conditions == parsed.time_conditions \o parsed.filters
                          \o InlineConditions(parsed.entities)
            where == ClauseLines(call[1].outcome.result.sql_query[1], "WHERE")
        IN  /\ call[1].body.value.sql_components.where = conditions
            /\ IF Len(conditions) = 0 THEN where = <<>>
               ELSE where = << <<"WHERE", " ">>
                               \o conditions[1]
                               \o Flatten([i \in 1..(Len(conditions) - 1) |->
                                              <<" AND ">> \o conditions[i + 1]]) >>

\* C18 witness: 서울 부산 gives the two location predicates joined by AND
C18_Witness ==
    /\ CallSucceeded
    /\ question = <<Phrases[5], Phrases[6]>>
    /\ ClauseLines(call[1].outcome.result.sql_query[1], "WHERE")
          = << <<"WHERE", " ", "customers.city", " = '", "seo", "ul", "'", " AND ",
                 "customers.city", " = '", "bu", "san", "'">> >>

\* the direction of the sort phrase in the text, if there is one
DetectedDirection(text) ==
    IF re_search(sort_desc_pattern, text) THEN Some("DESC")
    ELSE IF re_search(sort_asc_pattern, text) THEN Some("ASC")
    ELSE None

\* C19 (as claimed): ORDER BY is emitted exactly when a sort direction was
\* detected; its expression is the first business-term entity's SELECT item,
\* well formed, or `1` when there is no such entity; the direction follows.
C19_OrderByExpression ==
    CallSucceeded =>
        LET parsed == call[1].body.value.parsed
            select == call[1].body.value.sql_components.select
            lines == ClauseLines(call[1].outcome.result.sql_query[1], "ORDER BY")
            direction == DetectedDirection(AskedText)
        IN  /\ (Len(lines) > 0) <=> (direction # None)
            /\ direction # None =>
                  /\ Len(lines) = 1
                  /\ Len(lines[1]) >= 5
                  /\ LET expression == SubSeq(lines[1], 3, Len(lines[1]) - 2) IN
                     /\ SubSeq(lines[1], 1, 2) = <<"ORDER BY", " ">>
                     /\ SubSeq(lines[1], Len(lines[1]) - 1, Len(lines[1]))
                           = <<" ", direction[1]>>
                     /\ Depth(expression) = 0
                     /\ IF Len(BusinessEntities(parsed)) = 0
                        THEN expression = <<"1">>
                        ELSE \/ select = expression
                             \/ /\ Len(select) > Len(expression)
                                /\ SubSeq(select, 1, Len(expression) + 1)
                                      = expression \o <<", ">>

\* the place of a clause keyword in the clause order; 0 for any other chunk
ClauseRank(keyword) ==
    CASE keyword = "SELECT" -> 1 [] keyword = "FROM" -> 2
      [] keyword = "JOIN" -> 3 [] keyword = "WHERE" -> 4
      [] keyword = "GROUP BY" -> 5 [] keyword = "HAVING" -> 6
      [] keyword = "ORDER BY" -> 7 [] keyword = "LIMIT" -> 8
      [] OTHER -> 0

\* C20: the lines of an assembled text are clauses in the order SELECT, FROM,
\* JOIN*, WHERE, GROUP BY, HAVING, ORDER BY, LIMIT; SELECT and FROM are there;
\* a clause is there exactly when its component is not empty, never as a bare
\* keyword; and there is no HAVING.
C20_ClauseOrder ==
    CallSucceeded =>
        LET sql == call[1].outcome.result.sql_query[1]
            components == call[1].body.value.sql_components
            lines == SplitLines(sql)
        IN  /\ Len(lines) >= 2
            /\ \A i \in 1..Len(lines) :
                  /\ Len(lines[i]) >= 3
                  /\ ClauseRank(lines[i][1]) > 0
                  /\ lines[i][2] = " "
            /\ lines[1][1] = "SELECT" /\ lines[2][1] = "FROM"
            /\ \A i \in 1..(Len(lines) - 1) :
                  \/ ClauseRank(lines[i][1]) < ClauseRank(lines[i + 1][1])
                  \/ lines[i][1] = "JOIN" /\ lines[i + 1][1] = "JOIN"
            /\ (ClauseLines(sql, "WHERE") # <<>>) <=> (components.where # <<>>)
            /\ (ClauseLines(sql, "GROUP BY") # <<>>) <=> (components.group_by # <<>>)
            /\ (ClauseLines(sql, "ORDER BY") # <<>>) <=> (components.order_by # None)
            /\ (ClauseLines(sql, "LIMIT") # <<>>) <=> (components.limit # None)
            /\ components.having = <<>>
            /\ ClauseLines(sql, "HAVING") = <<>>

\* C20 witness: 지역별 높은 순 is assembled as SELECT, FROM, GROUP BY, ORDER BY
C20_Witness ==
    /\ CallSucceeded
    /\ question = <<Phrases[16], Phrases[14]>>
    /\ LET lines == SplitLines(call[1].outcome.result.sql_query[1])
       IN  [i \in 1..Len(lines) |-> lines[i][1]]
              = <<"SELECT", "FROM", "GROUP BY", "ORDER BY">>

\* the buckets, by place in the priority order, one of whose keywords occurs
\* in the lower-cased text
BucketsHit(text) ==
    {b \in 1..Len(intent_keywords) :
        \E k \in 1..Len(intent_keywords[b].keywords) :
           Contains(intent_keywords[b].keywords[k], lower(text))}

\* C21: the intent is the bucket of highest priority (comparison, trend,
\* ranking, distribution, aggregation) one of whose keywords occurs in the
\* lower-cased question, and general when no bucket has one.
C21_IntentPriority ==
    CallSucceeded =>
        LET hit == BucketsHit(AskedText)
            intent == call[1].outcome.result.parsed_intent.intent
        IN  IF hit = {} THEN intent = "general"
            ELSE intent = intent_keywords[CHOOSE b \in hit :
                                             \A c \in hit : b <= c].intent

\* C21 witness: `TOP 5 비교` holds a ranking keyword (in upper case) before a
\* comparison keyword and is classified comparison
C21_Witness ==
    /\ CallSucceeded
    /\ question = <<Phrases[13], Phrases[18]>>
    /\ BucketsHit(AskedText) = {1, 3}
    /\ call[1].outcome.result.parsed_intent.intent = "comparison"

\* how many chunks of a text are one of the words
Tokens(text, words) == Cardinality({i \in 1..Len(text) : text[i] \in words})

\* the aggregate-function tokens of the components: those of the SELECT list
\* and of the ORDER BY expression
AggregateTokens(components) ==
    Tokens(components.select, {"SUM", "AVG", "COUNT", "MAX", "MIN"})
    + (IF components.order_by = None THEN 0
       ELSE Tokens(components.order_by[1], {"SUM", "AVG", "COUNT", "MAX", "MIN"}))

\* C22: estimated_complexity is low when join_count*2 + subquery_count*3 +
\* aggregation_count is at most 3, medium when it is 4 to 8, high above 8; the
\* counts are those of the JOIN lines, the nested selects and the aggregate
\* tokens, and the GROUP BY and ORDER BY keywords add nothing to the sum.
C22_TierThresholds ==
    (sql_components # None /\ report # None) =>
        LET analysis == report[1].performance_analysis
            weighted == analysis.join_count * 2 + analysis.subquery_count * 3
                        + analysis.aggregation_count
        IN  /\ analysis.join_count = Len(sql_components[1].joins)
            /\ analysis.subquery_count = 0
            /\ analysis.aggregation_count = AggregateTokens(sql_components[1])
            /\ weighted <= 3 => analysis.estimated_complexity = "low"
            /\ weighted \in 4..8 => analysis.estimated_complexity = "medium"
            /\ weighted > 8 => analysis.estimated_complexity = "high"

\* C22 witness: four joins and one aggregate, with GROUP BY and ORDER BY
\* clauses: the sum is 9 and the tier is high
C22_Witness ==
    /\ sql_components # None /\ report # None
    /\ Len(sql_components[1].joins) = 4
    /\ AggregateTokens(sql_components[1]) = 1
    /\ sql_components[1].group_by # <<>>
    /\ sql_components[1].order_by # None
    /\ report[1].performance_analysis.estimated_complexity = "high"

\* the text in upper case, word by word
Upper(text) == [i \in 1..Len(text) |-> CaseFold(text[i])]

\* the opening parentheses that a SELECT follows, white space apart
SubSelects(text) ==
    Cardinality({i \in 1..Len(text) :
        /\ text[i] = "("
        /\ \E j \in (i + 1)..Len(text) :
              /\ text[j] = "SELECT"
              /\ \A k \in (i + 1)..(j - 1) : text[k] \in {" ", "\n"}})

\* the score the claim gives a text
ClaimedScore(text) ==
    LET upper == Upper(text)
    IN  1 + 2 * Tokens(upper, {"JOIN"})
          + 3 * SubSelects(upper)
          + Tokens(upper, {"SUM", "AVG", "COUNT", "MAX", "MIN"})
          + (IF Tokens(upper, {"GROUP BY"}) > 0 THEN 2 ELSE 0)
          + (IF Tokens(upper, {"ORDER BY"}) > 0 THEN 1 ELSE 0)

\* C23: complexity_score is 1 + 2 per JOIN token + 3 per parenthesized
\* sub-select + 1 per aggregate-function token + 2 if GROUP BY is present + 1
\* if ORDER BY is present, computed on the SQL text; the complexity_score of
\* the success result is the one of the optimization report.
C23_ScoreFormula ==
    /\ report # None => report[1].complexity_score = ClaimedScore(sql_text)
    /\ CallSucceeded =>
          LET r == call[1].outcome.result IN
          /\ r.optimization.complexity_score = ClaimedScore(r.sql_query[1])
          /\ r.complexity_score = r.optimization.complexity_score

\* C23 witness: 매출 주문 수 gives one JOIN and two aggregates, score 5, in
\* the report and in the result
C23_Witness ==
    /\ CallSucceeded
    /\ question = <<Phrases[1], Phrases[4]>>
    /\ Tokens(call[1].outcome.result.sql_query[1], {"JOIN"}) = 1
    /\ call[1].outcome.result.optimization.complexity_score = 5
    /\ call[1].outcome.result.complexity_score = 5

RECURSIVE ClaimedSuggestions(_, _)
\* the suggestions of the rules k.. whose pattern is found in the text
ClaimedSuggestions(text, k) ==
    IF k > Len(optimization_rules) THEN <<>>
    ELSE (IF RuleMatches(optimization_rules[k].pattern, text)
          THEN <<optimization_rules[k].suggestion>> ELSE <<>>)
         \o ClaimedSuggestions(text, k + 1)

RECURSIVE ClaimedOptimizations(_, _)
\* the DDL strings of the rules k.. that have one and whose pattern is found
ClaimedOptimizations(text, k) ==
    IF k > Len(optimization_rules) THEN <<>>
    ELSE (IF /\ RuleMatches(optimization_rules[k].pattern, text)
             /\ optimization_rules[k].optimization # None
          THEN optimization_rules[k].optimization ELSE <<>>)
         \o ClaimedOptimizations(text, k + 1)

\* C24: the suggestions are those of all the rules whose pattern is found in
\* the SQL text, in rule declaration order, and the optimizations are the DDL
\* strings of those of them that have one.
C24_AllRulesFire ==
    /\ report # None =>
          /\ report[1].suggestions = ClaimedSuggestions(sql_text, 1)
          /\ report[1].optimizations = ClaimedOptimizations(sql_text, 1)
    /\ CallSucceeded =>
          LET r == call[1].outcome.result IN
          /\ r.optimization.suggestions = ClaimedSuggestions(r.sql_query[1], 1)
          /\ r.optimization.optimizations = ClaimedOptimizations(r.sql_query[1], 1)

\* C24 witness: 서울 높은 순 has WHERE customers.city and ORDER BY: the index
\* suggestion and the LIMIT suggestion are both given, with the one DDL string
C24_Witness ==
    /\ CallSucceeded
    /\ question = <<Phrases[5], Phrases[14]>>
    /\ call[1].outcome.result.optimization.suggestions
          = <<optimization_rules[1].suggestion, optimization_rules[3].suggestion>>
    /\ call[1].outcome.result.optimization.optimizations
          = optimization_rules[1].optimization

RECURSIVE OccurrencesFrom(_, _, _)
\* how many times a pattern occurs in the text at or after position i,
\* counting from the left without overlap
OccurrencesFrom(regex, text, i) ==
    IF i > Len(text) THEN 0
    ELSE IF MatchAt(regex, text, i).end # 0
         THEN 1 + OccurrencesFrom(regex, text, MatchAt(regex, text, i).end)
         ELSE OccurrencesFrom(regex, text, i + 1)

Occurrences(regex, text) == OccurrencesFrom(regex, text, 1)

Copies(n, v) == [i \in 1..n |-> v]

\* the results a pattern with k occurrences contributes: k when every
\* occurrence counts, one for any k > 0 otherwise
Contribution(k, everyOccurrence) ==
    IF everyOccurrence THEN k ELSE IF k > 0 THEN 1 ELSE 0

\* what identifies the rule in a time condition: the text of a static rule,
\* the head of a computed one
TimeKind(condition) ==
    IF condition[1] = "sale_date >= DATE" THEN <<"sale_date >= DATE">>
    ELSE condition

\* the rules of each category, in declaration order, each as many times as
\* it contributes (time_patterns is the table of the instance that answers); searched(k) is the contribution of a pattern of the
\* categories looked up with re.search or `in`, found(k) that of a pattern of
\* the categories iterated with re.finditer
ExpectedRules(text, searched(_), found(_)) ==
    [entities |->
        Flatten([t \in 1..Len(business_terms) |->
            Flatten([k \in 1..Len(business_terms[t].patterns) |->
                Copies(searched(Occurrences(business_terms[t].patterns[k], text)),
                       business_terms[t].term)])])
        \o Flatten([i \in 1..Len(regions) |->
                Copies(searched(Occurrences(<<regions[i]>>, text)), regions[i])])
        \o Flatten([i \in 1..Len(categories) |->
                Copies(searched(Occurrences(<<categories[i]>>, text)),
                       categories[i])]),
     time_conditions |->
        Flatten([r \in 1..Len(time_patterns) |->
            Copies(found(Occurrences(time_patterns[r].pattern, text)),
                   IF time_patterns[r].condition.tag = "Computed"
                   THEN <<"sale_date >= DATE">>
                   ELSE time_patterns[r].condition.text)]),
     aggregations |->
        Flatten([r \in 1..Len(aggregation_terms) |->
            Copies(searched(Occurrences(aggregation_terms[r].pattern, text)),
                   aggregation_terms[r].function)]),
     filters |->
        Flatten([r \in 1..Len(amount_patterns) |->
            Copies(found(Occurrences(amount_patterns[r].pattern, text)),
                   amount_patterns[r].column)]),
     grouping |->
        Flatten([r \in 1..Len(group_patterns) |->
            Copies(searched(Occurrences(group_patterns[r].pattern, text)),
                   group_patterns[r].column)])]

\* the rules behind the results of a parsed question, category by category
ExtractedRules(parsed, expected) ==
    [entities |-> [i \in 1..Len(parsed.entities) |-> parsed.entities[i].value],
     time_conditions |-> [i \in 1..Len(parsed.time_conditions) |->
                             TimeKind(parsed.time_conditions[i])],
     aggregations |-> [i \in 1..Len(parsed.aggregations) |->
                          parsed.aggregations[i].function],
     filters |-> [i \in 1..Len(parsed.filters) |->
                     IF i <= Len(expected.filters)
                     THEN SubSeq(parsed.filters[i], 1, Len(expected.filters[i]))
                     ELSE parsed.filters[i]],
     grouping |-> parsed.grouping]

PrecedingMonthPredicate(dt) ==
    LET today == ord2ymd(dt.ordinal)
    IN  IF today.month = 1
        THEN ExtractYear(today.year - 1) \o <<" AND ">> \o ExtractMonth(12)
        ELSE ExtractYear(today.year) \o <<" AND ">>
             \o ExtractMonth(today.month - 1)

\* C26 (as claimed): a call that answers a `last month` question gives the
\* time predicate of the calendar month (year and month) before the date of
\* the call, in January too and however long after construction the call is
\* made.
C26_LastMonthPredicate ==
    [][(/\ call' # None /\ call'[1].live /\ now' = now
        /\ Succeeded(call'[1]) /\ HasPhrase(10)) =>
          \E i \in 1..Len(call'[1].body.value.parsed.time_conditions) :
             call'[1].body.value.parsed.time_conditions[i]
                = PrecedingMonthPredicate(Instant(now))]_vars

\* the text has an ORDER BY clause and a LIMIT clause after it
SortedAndLimited(sql) ==
    LET lines == SplitLines(sql)
    IN  \E i, j \in 1..Len(lines) :
           /\ i < j
           /\ Len(lines[i]) > 0 /\ lines[i][1] = "ORDER BY"
           /\ Len(lines[j]) > 0 /\ lines[j][1] = "LIMIT"

\* C27 (as claimed): a generated query whose ORDER BY clause is followed by a
\* LIMIT clause does not get the add-LIMIT suggestion.
C27_NoLimitSuggestionWhenLimited ==
    (CallSucceeded /\ SortedAndLimited(call[1].outcome.result.sql_query[1])) =>
        ~Suggested(call[1].outcome.result.optimization, AddLimitSuggestion)

\* the suggestion of the rule join_optimization
MultiJoinSuggestion ==
    (CHOOSE rule \in {optimization_rules[i] : i \in 1..Len(optimization_rules)} :
        rule.name = "join_optimization").suggestion

TablesOf(chunk) ==
    CASE chunk \in {"sales.amount", "sales.amount - "} -> {"sales"}
      [] chunk \in {"customers.id", "customers.age", "customers.city"} -> {"customers"}
      [] chunk \in {"products.id", "products.stock_quantity", "products.category",
                    "products.category = '"} -> {"products"}
      [] chunk \in {"orders.id", "orders.total_amount"} -> {"orders"}
      [] chunk = "order_items.quantity * products.price * 0.7)"
            -> {"order_items", "products"}
      [] chunk = "companies.name" -> {"companies"}
      [] chunk = "sales.order_id = orders.id" -> {"sales", "orders"}
      [] chunk = "orders.customer_id = customers.id" -> {"orders", "customers"}
      [] chunk = "orders.id = order_items.order_id" -> {"orders", "order_items"}
      [] chunk = "order_items.product_id = products.id" -> {"order_items", "products"}
      [] chunk = "products.company_id = companies.id" -> {"products", "companies"}
      [] OTHER -> {}

\* the tables a text introduces: the FROM table, then the target of each JOIN
Introduced(sql) ==
    LET from == ClauseLines(sql, "FROM")
        joins == ClauseLines(sql, "JOIN")
    IN  [i \in 1..Len(from) |-> from[i][3]] \o [i \in 1..Len(joins) |-> joins[i][3]]

\* the tables whose columns the clauses of a text refer to
Referenced(sql) ==
    UNION {TablesOf(sql[i]) : i \in {j \in 1..Len(sql) : j < 3 \/ sql[j - 2] \notin {"FROM", "JOIN"}}}

\* C29 (as claimed): every table whose column is referenced in the SELECT
\* list, an ON predicate, WHERE, GROUP BY or ORDER BY is introduced by FROM or
\* as the target of a JOIN, and no table is introduced twice.
C29_TablesIntroduced ==
    CallSucceeded =>
        LET sql == call[1].outcome.result.sql_query[1]
            introduced == Introduced(sql)
        IN  /\ Referenced(sql) \subseteq {introduced[i] : i \in 1..Len(introduced)}
            /\ \A i, j \in 1..Len(introduced) :
                  i # j => introduced[i] # introduced[j]

\* which rules match a text, and the digits each match captures
Signature(text) ==
    [terms |-> {<<t, k>> \in (1..Len(business_terms)) \X (1..5) :
                   /\ k <= Len(business_terms[t].patterns)
                   /\ re_search(business_terms[t].patterns[k], text)},
     regions |-> {i \in 1..Len(regions) : Contains(regions[i], text)},
     categories |-> {i \in 1..Len(categories) : Contains(categories[i], text)},
     time |-> [r \in 1..Len(time_patterns) |->
                  re_finditer(time_patterns[r].pattern, text)],
     aggregations |-> {r \in 1..Len(aggregation_terms) :
                          re_search(aggregation_terms[r].pattern, text)},
     filters |-> [r \in 1..Len(amount_patterns) |->
                     re_finditer(amount_patterns[r].pattern, text)],
     sorting |-> <<re_search(sort_desc_pattern, text),
                   re_search(sort_asc_pattern, text)>>,
     grouping |-> {r \in 1..Len(group_patterns) :
                      re_search(group_patterns[r].pattern, text)},
     intent |-> BucketsHit(text)]

\* the characters of a text that are neither digits nor spaces
Letters(text) == {text[i] : i \in 1..Len(text)} \ (Digit \cup Space)

\* the characters of the region and category names found in a text
NamedIn(text) ==
    UNION ({Letters(regions[i]) : i \in Signature(text).regions}
           \cup {Letters(categories[i]) : i \in Signature(text).categories})

ThreadSucceeded(t) ==
    /\ threads[t].pc = "done"
    /\ threads[t].result[1].success

\* C30: two questions answered at the same clock time by the same instance,
\* with the same rule matches and the same captured digits, get the same SQL;
\* and the only characters of a question that its SQL holds are digits and
\* the names of the regions and categories of the fixed lists found in it.
C30_OnlyThroughMatches ==
    /\ \A t, u \in 1..MaxThreads :
          (/\ ThreadSucceeded(t) /\ ThreadSucceeded(u)
           /\ Signature(QuestionText(threads[t].question))
                 = Signature(QuestionText(threads[u].question))) =>
              threads[t].result[1].sql_query = threads[u].result[1].sql_query
    /\ \A t \in 1..MaxThreads :
          ThreadSucceeded(t) =>
              LET text == QuestionText(threads[t].question)
                  sql == threads[t].result[1].sql_query[1]
              IN  {sql[i] : i \in 1..Len(sql)} \cap Letters(text)
                     \subseteq NamedIn(text)

\* C30 witness: 고객 수익 서울 and 서울 고객 수익, two different texts with the
\* same matches, have both been answered, with the region name in the SQL
C30_Witness ==
    /\ ThreadSucceeded(1) /\ ThreadSucceeded(2)
    /\ threads[1].question = <<Phrases[2], Phrases[5]>>
    /\ threads[2].question = <<Phrases[5], Phrases[2]>>
    /\ Signature(QuestionText(threads[1].question))
          = Signature(QuestionText(threads[2].question))
    /\ \E i \in 1..Len(threads[1].result[1].sql_query[1]) :
          threads[1].result[1].sql_query[1][i] = "seo"
====
